---- MODULE Spec2Model ----
(***************************************************************************)
(* Duplicate / near-duplicate topic detection of the blog automation app:  *)
(* text normalisation (embeddings.normalize_text, services.normalize_title)*)
(* the embedding store and similarity check (embeddings.py), the per-user  *)
(* title cache and the duplicate guard (services.py), and the post-store    *)
(* writers that the cache does not see (sync_wordpress_posts, delete_title).*)
(*                                                                         *)
(* Strings are sequences of one-character strings, so that the regular     *)
(* expressions of the normaliser are computed character by character.      *)
(***************************************************************************)
EXTENDS Integers, Sequences, FiniteSets, TLC

VARIABLES
    user_posts,      \* rows of table user_posts, in rowid order: [user_id, title, wp_post_id]
    title_cache,     \* services._title_cache: user_id -> [present, original, normalized]
    emb_file,        \* content of topic_embeddings.json: ordered <<topic, vector>> pairs
    openai_api_key,  \* user_settings.openai_api_key is set, per user
    last,            \* the last call: operation, arguments, return value, observed effects
    nq,              \* one normalisation query (pure-function checks of the normaliser)
    gen,             \* the generate_unique_topic_and_post request in flight and its position
    cli,             \* the auto_post.generate_and_review_post run and its position
    io,              \* the bytes of topic_embeddings.json and the save / load in progress
    parked,          \* a second generation request, while the thread of gen is running
    iso,             \* the embedding file with and without the operations of another user
    rl,              \* the request times kept by the rate_limit decorators, and the clock
    wp               \* the sync_wordpress_posts runs in flight and the holder of the write lock

vars == <<user_posts, title_cache, emb_file, openai_api_key, last, nq, gen, cli, io,
          parked, iso, rl, wp>>

----------------------------------------------------------------------------
(* Bounds of the model *)

MaxPieces == 4      \* pieces concatenated into one normaliser input
MaxPosts == 1       \* rows of user_posts
MaxStore == 2       \* entries of the embedding file
MaxRows == 2        \* rows of user_posts while posts are generated

----------------------------------------------------------------------------
(* Characters and strings *)

NoneVal == <<"None">>          \* Python's None (no string has a four-letter character)

\* the letters that occur in the texts of the model
Uppers == <<"A", "B", "C", "D", "E", "G", "I", "K", "L", "N", "O", "R", "S", "T", "U">>
Lowers == <<"a", "b", "c", "d", "e", "g", "i", "k", "l", "n", "o", "r", "s", "t", "u">>

\* str.lower() on one character
LowerChar(c) ==
    IF \E i \in DOMAIN Uppers : Uppers[i] = c
    THEN Lowers[CHOOSE i \in DOMAIN Uppers : Uppers[i] = c]
    ELSE c

\* str.upper() on one character (used to build inputs that differ by case only)
UpperChar(c) ==
    IF \E i \in DOMAIN Lowers : Lowers[i] = c
    THEN Uppers[CHOOSE i \in DOMAIN Lowers : Lowers[i] = c]
    ELSE c

\* the regular expression class \s
IsSpace(c) == c \in {" ", "\t"}

\* s without its first n characters
Drop(s, n) == IF n >= Len(s) THEN <<>> ELSE SubSeq(s, n + 1, Len(s))

\* length of the longest prefix of s, from position i on, whose characters satisfy the class
RECURSIVE HashRun(_, _)
HashRun(s, i) == IF i <= Len(s) /\ s[i] = "#" THEN 1 + HashRun(s, i + 1) ELSE 0

RECURSIVE SpaceRun(_, _)
SpaceRun(s, i) == IF i <= Len(s) /\ IsSpace(s[i]) THEN 1 + SpaceRun(s, i + 1) ELSE 0

\* re.sub(r'^#+\s+', '', s): a leading run of '#' followed by at least one whitespace
StripHeading(s) ==
    LET h == HashRun(s, 1)
        w == SpaceRun(s, h + 1)
    IN  IF h >= 1 /\ w >= 1 THEN Drop(s, h + w) ELSE s

TitlePrefix == <<"t", "i", "t", "l", "e", ":">>

\* re.sub(r'^title:\s*', '', s, flags=re.IGNORECASE)
StripTitlePrefix(s) ==
    IF Len(s) >= 6 /\ [i \in 1..6 |-> LowerChar(s[i])] = TitlePrefix
    THEN Drop(s, 6 + SpaceRun(s, 7))
    ELSE s

\* re.sub(r'\s+', ' ', s): every whitespace run becomes one space
RECURSIVE CollapseSpaces(_)
CollapseSpaces(s) ==
    IF s = <<>> THEN <<>>
    ELSE IF IsSpace(s[1])
         THEN <<" ">> \o CollapseSpaces(Drop(s, SpaceRun(s, 1)))
         ELSE <<s[1]>> \o CollapseSpaces(Tail(s))

\* str.strip()
RECURSIVE Strip(_)
Strip(s) ==
    IF s = <<>> THEN <<>>
    ELSE IF IsSpace(s[1]) THEN Strip(Tail(s))
    ELSE IF IsSpace(s[Len(s)]) THEN Strip(SubSeq(s, 1, Len(s) - 1))
    ELSE s

\* str.lower()
Lower(s) == [i \in DOMAIN s |-> LowerChar(s[i])]

\* the body of embeddings.normalize_text and of services.normalize_title, which are
\* the same statements: None becomes "", then the three substitutions, strip and lower
NormalizeSteps(text) ==
    LET t0 == IF text = NoneVal THEN <<>> ELSE text
        t1 == StripHeading(t0)
        t2 == StripTitlePrefix(t1)
    IN  Lower(Strip(CollapseSpaces(t2)))

----------------------------------------------------------------------------
(* Titles used by the state machine *)

DockerGuide == <<"D", "o", "c", "k", "e", "r", " ", "G", "u", "i", "d", "e">>
HashDockerGuide == <<"#", " ", "d", "o", "c", "k", "e", "r", " ", " ", "g", "u", "i", "d", "e">>
KubeGuides == <<"K", "u", "b", "e", " ", "G", "u", "i", "d", "e", "s">>
Ansible == <<"A", "n", "s", "i", "b", "l", "e">>
ShortAb == <<"a", "b">>


Users == {1, 2}

\* titles passed to the duplicate checks
Titles == {DockerGuide, HashDockerGuide, KubeGuides, Ansible, ShortAb}

\* titles of posts fetched from WordPress
PostTitles == {DockerGuide, ShortAb}

\* ids of the posts on the WordPress site
WpIds == {1}

\* NormalizeSteps on the titles of the state machine, evaluated once
NormalizedTitles == [t \in Titles \cup {NoneVal} |-> NormalizeSteps(t)]

\* embeddings.normalize_text
normalize_text(text) ==
    IF text \in DOMAIN NormalizedTitles THEN NormalizedTitles[text] ELSE NormalizeSteps(text)

\* services.normalize_title (the same steps as normalize_text)
normalize_title(title) ==
    IF title \in DOMAIN NormalizedTitles THEN NormalizedTitles[title] ELSE NormalizeSteps(title)

----------------------------------------------------------------------------
(* Embedding vectors and cosine similarity (embeddings.py) *)

E1 == <<1, 0, 0, 0>>
V92 == <<23, 8, 4, 4>>      \* cosine with E1 is exactly 23/25 = 0.92
Orth == <<0, 1, 0, 0>>      \* cosine 0 with E1, 0.32 with V92

NoEmbedding == <<>>         \* get_embedding returned None

\* the embedding provider is a function of the text: the vector of response.data[0]
\* for the raw titles (add_embedding) and for their normalised forms (semantic check)
TextsOfE1 == {KubeGuides, NormalizeSteps(KubeGuides), NormalizeSteps(DockerGuide)}
EmbeddingOf(text) ==
    CASE text \in {DockerGuide, HashDockerGuide} -> V92
      [] text \in TextsOfE1 -> E1
      [] OTHER -> Orth

RECURSIVE Dot(_, _)
Dot(a, b) == IF a = <<>> THEN 0 ELSE a[1] * b[1] + Dot(Tail(a), Tail(b))

\* numpy.linalg.norm on the vectors of the model, whose norms are integers
Norm(a) == CHOOSE n \in 0..Dot(a, a) : n * n = Dot(a, a)

\* a similarity score is the exact fraction num/den with den > 0
Score(n, d) == [num |-> n, den |-> d]

\* a > b on scores
ScoreGt(a, b) == a.num * b.den > b.num * a.den

\* embeddings.cosine_similarity
cosine_similarity(a, b) == Score(Dot(a, b), Norm(a) * Norm(b))

\* embeddings.SIMILARITY_THRESHOLD = 0.92
SIMILARITY_THRESHOLD == Score(23, 25)

\* a threshold test that also accepts a score equal to the threshold
AboveThreshold_geq(max_similarity) == ~ScoreGt(SIMILARITY_THRESHOLD, max_similarity)

\* the comparison of line 134: max_similarity > SIMILARITY_THRESHOLD
AboveThreshold(max_similarity) == ScoreGt(max_similarity, SIMILARITY_THRESHOLD)

\* get_embedding without the test for a missing credential
get_embedding_nokeycheck(text, user_id, reply) ==
    IF ~reply
    THEN [value |-> NoEmbedding, contacted |-> 1]
    ELSE [value |-> EmbeddingOf(text), contacted |-> 1]

\* embeddings.get_embedding: no credential -> None without an API call; otherwise the
\* provider is called; reply is FALSE when the call raises (transport, quota, invalid key)
get_embedding(text, user_id, reply) ==
    IF ~openai_api_key[user_id]
    THEN [value |-> NoEmbedding, contacted |-> 0]
    ELSE IF ~reply
         THEN [value |-> NoEmbedding, contacted |-> 1]
         ELSE [value |-> EmbeddingOf(text), contacted |-> 1]

\* embeddings.load_embeddings: the mapping in file order
load_embeddings == emb_file

\* embeddings.save_embeddings: full rewrite of the file
save_embeddings(embeddings) == [ok |-> TRUE, file |-> embeddings]

\* dict membership and embeddings[text] = embedding on an insertion-ordered dict
HasKey(embeddings, text) == \E i \in DOMAIN embeddings : embeddings[i].topic = text

DictSet(embeddings, text, embedding) ==
    IF HasKey(embeddings, text)
    THEN [i \in DOMAIN embeddings |->
            IF embeddings[i].topic = text
            THEN [topic |-> text, embedding |-> embedding]
            ELSE embeddings[i]]
    ELSE Append(embeddings, [topic |-> text, embedding |-> embedding])

\* a floor of 5 characters instead of 10
TooShortForSemantic_5(text) == text = <<>> \/ Len(text) < 5

\* the texts too short for the semantic check (line 87)
TooShortForSemantic(text) == text = <<>> \/ Len(text) < 10

\* the loop of is_similar_to_existing (lines 107-123) from entry i on; np.dot raises a
\* ValueError on vectors of different lengths and nothing catches it
RECURSIVE SimilarityScan(_, _, _, _, _, _)
SimilarityScan(embeddings, i, normalized_text, new_embedding, max_similarity, most_similar_topic) ==
    IF i > Len(embeddings)
    THEN [exact |-> FALSE, max_similarity |-> max_similarity, topic |-> most_similar_topic,
          raised |-> FALSE]
    ELSE IF normalize_text(embeddings[i].topic) = normalized_text
         THEN [exact |-> TRUE, max_similarity |-> max_similarity,
               topic |-> embeddings[i].topic, raised |-> FALSE]
         ELSE IF Len(embeddings[i].embedding) # Len(new_embedding)
              THEN [exact |-> FALSE, max_similarity |-> max_similarity,
                    topic |-> most_similar_topic, raised |-> TRUE]
              ELSE LET similarity == cosine_similarity(new_embedding, embeddings[i].embedding)
                   IN  IF ScoreGt(similarity, max_similarity)
                       THEN SimilarityScan(embeddings, i + 1, normalized_text, new_embedding,
                                           similarity, embeddings[i].topic)
                       ELSE SimilarityScan(embeddings, i + 1, normalized_text, new_embedding,
                                           max_similarity, most_similar_topic)

\* embeddings.is_similar_to_existing; reply tells whether the provider answers if asked.
\* Every vector of emb_file comes from get_embedding and has the provider's dimension.
is_similar_to_existing(text, user_id, reply) ==
    IF TooShortForSemantic(text)
    THEN [similar |-> FALSE, topic |-> NoneVal, emb |-> NoEmbedding,
          contacted |-> 0, store_read |-> FALSE]
    ELSE LET normalized_text == normalize_text(text)
             got == get_embedding(normalized_text, user_id, reply)
         IN  IF got.value = NoEmbedding
             THEN [similar |-> FALSE, topic |-> NoneVal, emb |-> NoEmbedding,
                   contacted |-> got.contacted, store_read |-> FALSE]
             ELSE LET embeddings == load_embeddings
                  IN  IF embeddings = <<>>
                      THEN [similar |-> FALSE, topic |-> NoneVal, emb |-> got.value,
                            contacted |-> got.contacted, store_read |-> TRUE]
                      ELSE LET scan == SimilarityScan(embeddings, 1, normalized_text,
                                                      got.value, Score(0, 1), NoneVal)
                           IN  [similar |-> scan.exact \/ AboveThreshold(scan.max_similarity),
                                topic |-> scan.topic, emb |-> got.value,
                                contacted |-> got.contacted, store_read |-> TRUE]

\* add_embedding that reports success without writing the file
add_embedding_nosave(text, user_id, reply) ==
    LET got == get_embedding(text, user_id, reply)
    IN  [ok |-> got.value # NoEmbedding, file |-> emb_file, contacted |-> got.contacted,
         store_read |-> got.value # NoEmbedding]

\* embeddings.add_embedding
add_embedding(text, user_id, reply) ==
    LET got == get_embedding(text, user_id, reply)
    IN  IF got.value = NoEmbedding
        THEN [ok |-> FALSE, file |-> emb_file, contacted |-> got.contacted,
              store_read |-> FALSE]
        ELSE LET saved == save_embeddings(DictSet(load_embeddings, text, got.value))
             IN  [ok |-> saved.ok, file |-> saved.file, contacted |-> got.contacted,
                  store_read |-> TRUE]

----------------------------------------------------------------------------
(* Post store reads, title cache and duplicate guard (services.py) *)

\* SELECT title FROM user_posts WHERE user_id = ?
RECURSIVE SelectTitles(_, _)
SelectTitles(rows, user_id) ==
    IF rows = <<>> THEN <<>>
    ELSE IF rows[1].user_id = user_id
         THEN <<rows[1].title>> \o SelectTitles(Tail(rows), user_id)
         ELSE SelectTitles(Tail(rows), user_id)

NoEntry == [present |-> FALSE, original |-> <<>>, normalized |-> <<>>]

\* the loop of is_exact_title_exists (lines 661-671) from row i on
RECURSIVE ExactScan(_, _, _)
ExactScan(titles, i, norm_title) ==
    IF i > Len(titles) THEN [found |-> FALSE, title |-> NoneVal]
    ELSE IF normalize_title(titles[i]) = norm_title
         THEN [found |-> TRUE, title |-> titles[i]]
         ELSE ExactScan(titles, i + 1, norm_title)

\* an exact check that answers from the title cache when the user has an entry
is_exact_title_exists_cached(user_id, title) ==
    LET norm_title == normalize_title(title)
        titles == IF title_cache[user_id].present
                  THEN title_cache[user_id].original
                  ELSE SelectTitles(user_posts, user_id)
    IN  IF norm_title = <<>> \/ Len(norm_title) < 5
        THEN [found |-> FALSE, title |-> NoneVal]
        ELSE ExactScan(titles, 1, norm_title)

\* services.is_exact_title_exists: reads the post store, not the title cache
is_exact_title_exists(user_id, title) ==
    LET norm_title == normalize_title(title)
    IN  IF norm_title = <<>> \/ Len(norm_title) < 5
        THEN [found |-> FALSE, title |-> NoneVal]
        ELSE ExactScan(SelectTitles(user_posts, user_id), 1, norm_title)

\* get_all_user_titles that ignores force_refresh
get_all_user_titles_noforce(user_id, force_refresh) ==
    IF ~title_cache[user_id].present
    THEN LET titles == SelectTitles(user_posts, user_id)
         IN  [cache |-> [title_cache EXCEPT ![user_id] =
                            [present |-> TRUE,
                             original |-> titles,
                             normalized |-> [i \in DOMAIN titles |-> normalize_title(titles[i])]]],
              rebuilt |-> TRUE]
    ELSE [cache |-> title_cache, rebuilt |-> FALSE]

\* services.get_all_user_titles: the cache after the call and whether it was rebuilt
get_all_user_titles(user_id, force_refresh) ==
    IF ~title_cache[user_id].present \/ force_refresh
    THEN LET titles == SelectTitles(user_posts, user_id)
         IN  [cache |-> [title_cache EXCEPT ![user_id] =
                            [present |-> TRUE,
                             original |-> titles,
                             normalized |-> [i \in DOMAIN titles |-> normalize_title(titles[i])]]],
              rebuilt |-> TRUE]
    ELSE [cache |-> title_cache, rebuilt |-> FALSE]

\* title_exists_in_db that looks the normalised title up in the original titles
title_exists_in_db_original(user_id, title) ==
    LET normalized_title == normalize_title(title)
    IN  IF Len(normalized_title) < 5
        THEN [ret |-> FALSE, cache |-> title_cache, cache_read |-> FALSE, rebuilt |-> FALSE]
        ELSE LET got == get_all_user_titles(user_id, FALSE)
                 entry == got.cache[user_id]
             IN  [ret |-> \E i \in DOMAIN entry.original : entry.original[i] = normalized_title,
                  cache |-> got.cache, cache_read |-> TRUE, rebuilt |-> got.rebuilt]

\* title_exists_in_db that applies the floor to titles of fewer than 2 characters only
title_exists_in_db_floor2(user_id, title) ==
    LET normalized_title == normalize_title(title)
    IN  IF Len(normalized_title) < 2
        THEN [ret |-> FALSE, cache |-> title_cache, cache_read |-> FALSE, rebuilt |-> FALSE]
        ELSE LET got == get_all_user_titles(user_id, FALSE)
                 entry == got.cache[user_id]
             IN  [ret |-> \E i \in DOMAIN entry.normalized : entry.normalized[i] = normalized_title,
                  cache |-> got.cache, cache_read |-> TRUE, rebuilt |-> got.rebuilt]

\* services.title_exists_in_db
title_exists_in_db(user_id, title) ==
    LET normalized_title == normalize_title(title)
    IN  IF Len(normalized_title) < 5
        THEN [ret |-> FALSE, cache |-> title_cache, cache_read |-> FALSE, rebuilt |-> FALSE]
        ELSE LET got == get_all_user_titles(user_id, FALSE)
                 entry == got.cache[user_id]
             IN  [ret |-> \E i \in DOMAIN entry.normalized : entry.normalized[i] = normalized_title,
                  cache |-> got.cache, cache_read |-> TRUE, rebuilt |-> got.rebuilt]

\* is_similar_post_exists that registers the title also when it is a semantic duplicate
is_similar_post_exists_register(user_id, title, reply1, reply2) ==
    LET exact == is_exact_title_exists(user_id, title)
    IN  IF exact.found
        THEN [ret |-> TRUE, exact |-> TRUE, similar |-> FALSE, topic |-> exact.title,
              emb |-> NoEmbedding, contacted |-> 0, store_read |-> FALSE,
              registered |-> FALSE, file |-> emb_file]
        ELSE LET sem == is_similar_to_existing(title, user_id, reply1)
                 added == add_embedding(title, user_id, reply2)
             IN  [ret |-> sem.similar, exact |-> FALSE, similar |-> sem.similar,
                  topic |-> sem.topic, emb |-> sem.emb,
                  contacted |-> sem.contacted + added.contacted,
                  store_read |-> sem.store_read \/ added.store_read,
                  registered |-> added.ok /\ ~sem.similar, file |-> added.file]

\* services.is_similar_post_exists; reply1 and reply2 tell whether the provider answers
\* the embedding requests of the semantic check and of add_embedding
is_similar_post_exists(user_id, title, reply1, reply2) ==
    LET exact == is_exact_title_exists(user_id, title)
    IN  IF exact.found
        THEN [ret |-> TRUE, exact |-> TRUE, similar |-> FALSE, topic |-> exact.title,
              emb |-> NoEmbedding, contacted |-> 0, store_read |-> FALSE,
              registered |-> FALSE, file |-> emb_file]
        ELSE LET sem == is_similar_to_existing(title, user_id, reply1)
             IN  IF sem.similar
                 THEN [ret |-> TRUE, exact |-> FALSE, similar |-> TRUE, topic |-> sem.topic,
                       emb |-> sem.emb, contacted |-> sem.contacted,
                       store_read |-> sem.store_read,
                       registered |-> FALSE, file |-> emb_file]
                 ELSE LET added == add_embedding(title, user_id, reply2)
                      IN  [ret |-> FALSE, exact |-> FALSE, similar |-> FALSE, topic |-> sem.topic,
                           emb |-> sem.emb, contacted |-> sem.contacted + added.contacted,
                           store_read |-> sem.store_read \/ added.store_read,
                           registered |-> added.ok, file |-> added.file]

\* the loop of sync_wordpress_posts (lines 610-623) from fetched post i on
RECURSIVE SyncRows(_, _, _, _)
SyncRows(rows, user_id, posts, i) ==
    IF i > Len(posts) THEN rows
    ELSE LET post == posts[i]
             hit == {k \in DOMAIN rows : rows[k].wp_post_id = post.id /\ rows[k].user_id = user_id}
         IN  IF hit # {}
             THEN LET k == CHOOSE k \in hit : \A j \in hit : k <= j
                  IN  SyncRows([rows EXCEPT ![k].title = post.title], user_id, posts, i + 1)
             ELSE SyncRows(Append(rows, [user_id |-> user_id, title |-> post.title,
                                         wp_post_id |-> post.id]),
                           user_id, posts, i + 1)

\* sequences of at most n elements of S
SeqsUpTo(S, n) == UNION {[1..k -> S] : k \in 0..n}

\* WordPress answers: a failure, or a list of posts with distinct ids
WpResponses ==
    {[ok |-> FALSE, posts |-> <<>>]} \cup
    {[ok |-> TRUE, posts |-> ps] :
        ps \in {q \in SeqsUpTo([id : WpIds, title : PostTitles], 1) :
                    \A i, j \in DOMAIN q : q[i].id = q[j].id => i = j}}

----------------------------------------------------------------------------
(* Post generation (services.generate_unique_topic_and_post). The content returned by  *)
(* the language model is a sequence of lines. In the contents of the model every line  *)
(* that begins with '#' has a non-blank character after the '#' and its blanks, and no *)
(* content begins with a blank line.                                                   *)

\* position of the first line from i on that begins with '#', 0 if there is none:
\* re.search(r'^#\s*(.+)$', content, re.MULTILINE)
RECURSIVE TitleMatch(_, _)
TitleMatch(content, i) ==
    IF i > Len(content) THEN 0
    ELSE IF content[i] # <<>> /\ content[i][1] = "#" THEN i
    ELSE TitleMatch(content, i + 1)

\* lines 810-817: group(1) of the match, else the stripped first line
ExtractTitle(content) ==
    LET m == TitleMatch(content, 1)
    IN  IF m > 0
        THEN Drop(content[m], 1 + SpaceRun(content[m], 2))
        ELSE IF content = <<>> THEN <<>> ELSE Strip(content[1])

\* str.split() of a string whose words are separated by single spaces
RECURSIVE Words(_, _)
Words(s, word) ==
    IF s = <<>> THEN (IF word = <<>> THEN <<>> ELSE <<word>>)
    ELSE IF IsSpace(s[1])
         THEN (IF word = <<>> THEN <<>> ELSE <<word>>) \o Words(Tail(s), <<>>)
         ELSE Words(Tail(s), Append(word, s[1]))

\* str.islower(): some cased character and no upper-case one
IsLower(word) ==
    /\ \E i \in DOMAIN word : UpperChar(word[i]) # word[i]
    /\ \A i \in DOMAIN word : LowerChar(word[i]) = word[i]

\* str.capitalize()
Capitalize(word) ==
    [i \in DOMAIN word |-> IF i = 1 THEN UpperChar(word[i]) ELSE LowerChar(word[i])]

RECURSIVE JoinWords(_)
JoinWords(words) ==
    IF words = <<>> THEN <<>>
    ELSE IF Len(words) = 1 THEN words[1]
    ELSE words[1] \o <<" ">> \o JoinWords(Tail(words))

\* line 829: ' '.join(word.capitalize() if word.islower() else word for word in title.split())
CapitalizeWords(title) ==
    LET words == Words(title, <<>>)
    IN  JoinWords([i \in DOMAIN words |->
                      IF IsLower(words[i]) THEN Capitalize(words[i]) ELSE words[i]])

\* line 824: len(title) < 10, on the normalised title
TitleTooShort(title) == Len(title) < 10

\* lines 808-829: the title of the generated content
DeriveTitle(content) ==
    LET original_title == ExtractTitle(content)
        title == normalize_title(original_title)
    IN  [original_title |-> original_title,
         too_short |-> TitleTooShort(title),
         title |-> CapitalizeWords(title)]

\* the 'message' of the error results (lines 771, 786, 807, 826, 836, 855)
NoKeyMessage == "No OpenAI API key set for this user."
TopicFailedMessage == "OpenAI topic suggestion failed"
PostFailedMessage == "OpenAI post generation failed"
TooShortMessage == "Generated title is too short or invalid. Please try again."
ExistsMessage == "A post with this title already exists. Please try a different topic."
SaveFailedMessage == "Failed to save generated post"

\* embeddings.update_embeddings_from_db: the titles of the user that are no key yet get the
\* embedding the provider returns; replies[i] tells whether it answers for the i-th title
RECURSIVE UpdateScan(_, _, _, _, _)
UpdateScan(titles, i, embeddings, user_id, replies) ==
    IF i > Len(titles) THEN embeddings
    ELSE IF HasKey(embeddings, titles[i])
         THEN UpdateScan(titles, i + 1, embeddings, user_id, replies)
         ELSE LET got == get_embedding(titles[i], user_id, replies[i])
              IN  IF got.value = NoEmbedding
                  THEN UpdateScan(titles, i + 1, embeddings, user_id, replies)
                  ELSE UpdateScan(titles, i + 1, DictSet(embeddings, titles[i], got.value),
                                  user_id, replies)

update_embeddings_from_db(user_id, replies) ==
    UpdateScan(SelectTitles(user_posts, user_id), 1, load_embeddings, user_id, replies)

----------------------------------------------------------------------------
(* State machine *)

NoCall ==
    [op |-> "none", user |-> 0, title |-> NoneVal, ret |-> FALSE, topic |-> NoneVal,
     exact |-> FALSE, similar |-> FALSE, emb |-> NoEmbedding, contacted |-> 0,
     store_read |-> FALSE, cache_read |-> FALSE, rebuilt |-> FALSE, registered |-> FALSE,
     repeat |-> FALSE, repeat_registered |-> FALSE, force_refresh |-> FALSE]

\* no generation request is in flight
NoGen ==
    [pc |-> "idle", user |-> 0, content |-> <<>>, original_title |-> <<>>, title |-> <<>>,
     topic_reply |-> "none", post_reply |-> "none", db_reply |-> "none",
     status |-> "none", message |-> "", inserted |-> FALSE, entry_before |-> NoEntry]

\* no generate_and_review_post call of the command-line script is in flight
NoCli ==
    [pc |-> "idle", used_titles |-> {}, content |-> <<>>, generated_title |-> <<>>,
     regenerated |-> 0, ret_title |-> NoneVal]

\* the embedding file as the operating system holds it: no file; nothing is being saved
\* and no function of embeddings.py has been called on the file
NoIo ==
    [file |-> [kind |-> "missing", value |-> <<>>],
     save |-> [pc |-> "idle", new |-> <<>>, written |-> 0, ret |-> FALSE,
               key |-> NoneVal, replaced |-> <<>>],
     waiting |-> [r \in 1..2 |-> [pc |-> "none", text |-> NoneVal, new |-> <<>>]],
     call |-> [op |-> "none"]]

\* two copies of an empty embedding file, no registration and no decision yet
NoIso ==
    [with |-> [kind |-> "object", value |-> <<>>],
     without |-> [kind |-> "object", value |-> <<>>],
     registered |-> {},
     decision |-> [made |-> FALSE]]

\* the addresses requests come from, and the endpoints of settings_routes.py that carry
\* the decorator
Ips == {"10.0.0.1", "10.0.0.2"}
Endpoints == {"restore_backup", "settings"}

\* no request is in the wrapper of a decorated endpoint
NoRequest == [pc |-> "none", endpoint |-> "none", ip |-> "none", now |-> 0, seen |-> 0,
              status |-> 0, recorded |-> FALSE, ran |-> FALSE]

\* no decorated endpoint has been requested: every closure starts with requests = {}
NoRl ==
    [now |-> 0, arrived |-> 0,
     requests |-> [e \in Endpoints |-> [ip \in Ips |-> <<>>]],
     admitted |-> [e \in Endpoints |-> [ip \in Ips |-> <<>>]],
     req |-> [r \in 1..2 |-> NoRequest]]

\* no sync_wordpress_posts run is in flight
NoSync == [pc |-> "idle", user |-> 0, posts |-> <<>>, i |-> 0, exists |-> 0, rows |-> <<>>,
           wrote |-> FALSE, ret |-> FALSE]

\* sync_wordpress_posts has not run: nobody holds the write lock of users.db
NoWp == [lock |-> 0, run |-> [r \in 1..2 |-> NoSync]]

NoQuery == [stage |-> "idle", fn |-> "none", kind |-> "none", x |-> <<>>,
            once |-> <<>>, twice |-> <<>>, sibling |-> <<>>]

Init ==
    /\ user_posts = <<>>
    /\ title_cache = [u \in Users |-> NoEntry]
    /\ emb_file = <<>>
    /\ openai_api_key = [u \in Users |-> u = 1]
    /\ last = NoCall
    /\ nq = NoQuery
    /\ gen = NoGen
    /\ cli = NoCli
    /\ io = NoIo
    /\ parked = NoGen
    /\ iso = NoIso
    /\ rl = NoRl
    /\ wp = NoWp

\* the process serves one request at a time; a caller waits for the response, and then
\* either the next request arrives or the caller repeats the call it just made
Ready(op, u, t) ==
    \/ last.op = "none"
    \/ last.op = op /\ last.user = u /\ last.title = t

\* the response was delivered and the process waits for the next request
NextRequest ==
    /\ last.op # "none"
    /\ last' = NoCall
    /\ UNCHANGED <<user_posts, title_cache, emb_file, openai_api_key, nq, gen, cli, io,
                 parked, iso, rl, wp>>

\* a call of is_similar_post_exists(user_id, title)
IsSimilarPostExists(u, t, reply1, reply2) ==
    /\ Ready("is_similar_post_exists", u, t)
    /\ \E r \in {is_similar_post_exists(u, t, reply1, reply2)} :
       \E same \in {last.op = "is_similar_post_exists" /\ last.user = u /\ last.title = t
                    /\ ~last.ret} :
          /\ Len(r.file) <= MaxStore
          /\ emb_file' = r.file
          /\ last' = [NoCall EXCEPT !.op = "is_similar_post_exists", !.user = u, !.title = t,
                         !.ret = r.ret, !.topic = r.topic, !.exact = r.exact,
                         !.similar = r.similar, !.emb = r.emb, !.contacted = r.contacted,
                         !.store_read = r.store_read, !.registered = r.registered,
                         !.repeat = same, !.repeat_registered = same /\ last.registered]
    /\ UNCHANGED <<user_posts, title_cache, openai_api_key, nq, gen, cli, io,
                 parked, iso, rl, wp>>

\* a call of is_similar_to_existing(text, user_id)
IsSimilarToExisting(u, t, reply) ==
    /\ Ready("is_similar_to_existing", u, t)
    /\ \E r \in {is_similar_to_existing(t, u, reply)} :
          last' = [NoCall EXCEPT !.op = "is_similar_to_existing", !.user = u, !.title = t,
                      !.ret = r.similar, !.similar = r.similar, !.topic = r.topic,
                      !.emb = r.emb, !.contacted = r.contacted, !.store_read = r.store_read]
    /\ UNCHANGED <<user_posts, title_cache, emb_file, openai_api_key, nq, gen, cli, io,
                 parked, iso, rl, wp>>

\* a call of title_exists_in_db(user_id, title)
TitleExistsInDb(u, t) ==
    /\ Ready("title_exists_in_db", u, t)
    /\ \E r \in {title_exists_in_db(u, t)} :
          /\ title_cache' = r.cache
          /\ last' = [NoCall EXCEPT !.op = "title_exists_in_db", !.user = u, !.title = t,
                         !.ret = r.ret, !.cache_read = r.cache_read, !.rebuilt = r.rebuilt]
    /\ UNCHANGED <<user_posts, emb_file, openai_api_key, nq, gen, cli, io,
                 parked, iso, rl, wp>>

\* services.sync_wordpress_posts: a failed fetch changes nothing
SyncWordpressPosts(u, response) ==
    /\ last.op = "none"
    /\ \E rows \in {IF response.ok THEN SyncRows(user_posts, u, response.posts, 1)
                                   ELSE user_posts} :
          /\ Len(rows) <= MaxPosts
          /\ user_posts' = rows
    /\ last' = [NoCall EXCEPT !.op = "sync_wordpress_posts", !.user = u, !.ret = response.ok]
    /\ UNCHANGED <<title_cache, emb_file, openai_api_key, nq, gen, cli, io,
                 parked, iso, rl, wp>>

\* topic_routes.delete_title: post_id is the position of the row; a missing row or a row
\* of another user is left alone
DeleteTitle(u, post_id) ==
    LET mine == post_id \in DOMAIN user_posts /\ user_posts[post_id].user_id = u
    IN  /\ last.op = "none"
        /\ user_posts' = IF mine
                         THEN [i \in 1..(Len(user_posts) - 1) |->
                                 IF i < post_id THEN user_posts[i] ELSE user_posts[i + 1]]
                         ELSE user_posts
        /\ last' = [NoCall EXCEPT !.op = "delete_title", !.user = u, !.ret = mine]
        /\ UNCHANGED <<title_cache, emb_file, openai_api_key, nq, gen, cli, io,
                 parked, iso, rl, wp>>

Next ==
    \/ \E u \in Users, t \in Titles, reply1, reply2 \in BOOLEAN :
          IsSimilarPostExists(u, t, reply1, reply2)
    \/ \E u \in Users, t \in Titles, reply \in BOOLEAN : IsSimilarToExisting(u, t, reply)
    \/ \E u \in Users, t \in Titles : TitleExistsInDb(u, t)
    \/ \E u \in Users, response \in WpResponses : SyncWordpressPosts(u, response)
    \/ \E u \in Users, post_id \in 1..MaxPosts : DeleteTitle(u, post_id)
    \/ NextRequest

Spec == Init /\ [][Next]_vars

----------------------------------------------------------------------------
(* The normaliser as a pure function: inputs are drawn from concatenations of  *)
(* the pieces below, and the steps apply normalize_text / normalize_title.     *)

Pieces == {<<"#">>, <<" ">>, <<"\t">>, TitlePrefix,
           <<"T", "i", "t", "l", "e", ":">>, ShortAb}

RECURSIVE Concats(_)
Concats(n) ==
    IF n = 0 THEN {<<>>}
    ELSE LET shorter == Concats(n - 1)
         IN  shorter \cup {s \o p : s \in shorter, p \in Pieces}

ExampleHeading == <<"#", " ", "D", "o", "c", "k", "e", "r", " ", "G", "u", "i", "d", "e">>
ExamplePrefix == <<"T", "i", "t", "l", "e", ":", " ", "d", "o", "c", "k", "e", "r", " ", "g", "u", "i", "d", "e">>
ExampleSpaces == <<"d", "o", "c", "k", "e", "r", " ", " ", " ", "g", "u", "i", "d", "e">>

NormInputs == Concats(MaxPieces) \cup {ExampleHeading, ExamplePrefix, ExampleSpaces, NoneVal}

\* strings that differ from x only by a leading heading marker, a leading "Title:"
\* prefix, letter case, or the length of the whitespace runs
RECURSIVE DoubleSpaces(_)
DoubleSpaces(s) ==
    IF s = <<>> THEN <<>>
    ELSE IF IsSpace(s[1]) THEN <<s[1], s[1]>> \o DoubleSpaces(Tail(s))
    ELSE <<s[1]>> \o DoubleSpaces(Tail(s))

SiblingKinds == {"heading", "prefix", "case", "spaces"}

Sibling(kind, x) ==
    CASE kind = "heading" -> <<"#", " ">> \o x
      [] kind = "prefix" -> <<"T", "i", "t", "l", "e", ":", " ">> \o x
      [] kind = "case" -> [i \in DOMAIN x |-> UpperChar(x[i])]
      [] OTHER -> DoubleSpaces(x)

Apply(fn, x) == IF fn = "normalize_text" THEN normalize_text(x) ELSE normalize_title(x)

NormInit ==
    /\ user_posts = <<>>
    /\ title_cache = [u \in Users |-> NoEntry]
    /\ emb_file = <<>>
    /\ openai_api_key = [u \in Users |-> u = 1]
    /\ last = NoCall
    /\ gen = NoGen
    /\ cli = NoCli
    /\ io = NoIo
    /\ parked = NoGen
    /\ iso = NoIso
    /\ rl = NoRl
    /\ wp = NoWp
    /\ \E fn \in {"normalize_text", "normalize_title"}, x \in NormInputs :
          nq = [NoQuery EXCEPT !.stage = "input", !.fn = fn, !.x = x]

\* normalize(x)
NormalizeOnce ==
    /\ nq.stage = "input"
    /\ nq' = [nq EXCEPT !.stage = "once", !.once = Apply(nq.fn, nq.x)]
    /\ UNCHANGED <<user_posts, title_cache, emb_file, openai_api_key, last, gen, cli, io,
                 parked, iso, rl, wp>>

\* normalize(normalize(x))
NormalizeTwice ==
    /\ nq.stage = "once"
    /\ nq' = [nq EXCEPT !.stage = "twice", !.twice = Apply(nq.fn, nq.once)]
    /\ UNCHANGED <<user_posts, title_cache, emb_file, openai_api_key, last, gen, cli, io,
                 parked, iso, rl, wp>>

\* normalize of a sibling of x
NormalizeSibling(kind) ==
    /\ nq.stage = "twice"
    /\ nq.x # NoneVal
    /\ nq' = [nq EXCEPT !.stage = "sibling", !.kind = kind,
                        !.sibling = Apply(nq.fn, Sibling(kind, nq.x))]
    /\ UNCHANGED <<user_posts, title_cache, emb_file, openai_api_key, last, gen, cli, io,
                 parked, iso, rl, wp>>

NormNext ==
    \/ NormalizeOnce
    \/ NormalizeTwice
    \/ \E kind \in SiblingKinds : NormalizeSibling(kind)

NormSpec == NormInit /\ [][NormNext]_vars

----------------------------------------------------------------------------
(* Properties of the normaliser (checked under NormSpec) *)

\* C9: normalisation is idempotent, normalize(normalize(x)) = normalize(x), for
\* normalize_text and for normalize_title. The code strips one heading marker and then
\* one "title:" prefix, once each, so a second pass can strip more ("# # ab").
C9_Idempotent ==
    nq.stage \in {"twice", "sibling"} => nq.twice = nq.once

\* C10: normalize(x) is the composition strip heading marker, strip "title:" prefix,
\* collapse whitespace and trim, lowercase; None gives the empty string; and strings that
\* differ only by a leading heading marker, a leading "Title:" prefix, letter case or
\* whitespace-run length normalise to the same value. The last part fails on the code
\* for a prefix put in front of a heading marker ("Title: # ab" against "# ab").
C10_Equivalence ==
    /\ (nq.stage # "input" /\ nq.x = NoneVal) => nq.once = <<>>
    /\ (nq.stage # "input" /\ nq.x # NoneVal) =>
          nq.once = Lower(Strip(CollapseSpaces(StripTitlePrefix(StripHeading(nq.x)))))
    /\ nq.stage = "sibling" => nq.sibling = nq.once

----------------------------------------------------------------------------
(* Post generation as a state machine: one generate_unique_topic_and_post request in   *)
(* flight, step by step, while other requests of the same (threaded) process read and  *)
(* rebuild the title cache and update the embedding file.                              *)

\* contents returned by the language model
ContentH1 == <<<<"#", " ">> \o DockerGuide, ShortAb>>
ContentFirstLine == <<KubeGuides, ShortAb>>
ContentH2 == <<Ansible, <<"#", "#", " ">> \o DockerGuide>>
ContentShort == <<<<"#", " ">> \o Ansible>>
ContentRenorm == <<<<"#", " ", "T", "i", "t", "l", "e", ":", " ", "#", " ",
                    "T", "i", "t", "l", "e", ":", " ", "a", "b">>>>

Contents == {ContentH1, ContentFirstLine, ContentH2, ContentShort, ContentRenorm}

\* the result {'status': 'error', 'message': message}
Failed(message) == [gen EXCEPT !.pc = "Failed", !.status = "error", !.message = message]

\* a request POST /generate/post with an approved topic arrives (generate_routes.py:66)
StartGeneration(u) ==
    /\ gen.pc = "idle"
    /\ Len(user_posts) < MaxRows
    /\ gen' = [NoGen EXCEPT !.pc = "Suggesting", !.user = u]
    /\ UNCHANGED <<user_posts, title_cache, emb_file, openai_api_key, last, nq, cli, io,
                 parked, iso, rl, wp>>

\* the request goes to the provider without the test for a missing credential, and the
\* provider refuses the empty key
SuggestTopic_nokeycheck(reply) ==
    /\ gen.pc = "Suggesting"
    /\ gen' = IF ~openai_api_key[gen.user] \/ ~reply
              THEN [Failed(TopicFailedMessage) EXCEPT !.topic_reply = "error"]
              ELSE [gen EXCEPT !.pc = "Generating", !.topic_reply = "ok"]
    /\ UNCHANGED <<user_posts, title_cache, emb_file, openai_api_key, last, nq, cli, io,
                 parked, iso, rl, wp>>

\* lines 762-786: the credential is read and the model is asked for a topic
SuggestTopic(reply) ==
    /\ gen.pc = "Suggesting"
    /\ gen' = IF ~openai_api_key[gen.user] THEN Failed(NoKeyMessage)
              ELSE IF ~reply
                   THEN [Failed(TopicFailedMessage) EXCEPT !.topic_reply = "error"]
                   ELSE [gen EXCEPT !.pc = "Generating", !.topic_reply = "ok"]
    /\ UNCHANGED <<user_posts, title_cache, emb_file, openai_api_key, last, nq, cli, io,
                 parked, iso, rl, wp>>

\* lines 787-829: the model is asked for the post, the title is derived and validated
GeneratePost(reply, content) ==
    /\ gen.pc = "Generating"
    /\ \E t \in {DeriveTitle(content)} :
          gen' = IF ~reply
                 THEN [Failed(PostFailedMessage) EXCEPT !.post_reply = "error"]
                 ELSE IF t.too_short
                      THEN [Failed(TooShortMessage) EXCEPT
                               !.post_reply = "ok", !.content = content,
                               !.original_title = t.original_title]
                      ELSE [gen EXCEPT !.pc = "CheckingTitle", !.post_reply = "ok",
                               !.content = content, !.original_title = t.original_title,
                               !.title = t.title]
    /\ UNCHANGED <<user_posts, title_cache, emb_file, openai_api_key, last, nq, cli, io,
                 parked, iso, rl, wp>>

\* lines 833-836: title_exists_in_db(user_id, title)
CheckTitle ==
    /\ gen.pc = "CheckingTitle"
    /\ \E r \in {title_exists_in_db(gen.user, gen.title)} :
          /\ title_cache' = r.cache
          /\ gen' = IF r.ret THEN Failed(ExistsMessage) ELSE [gen EXCEPT !.pc = "Saving"]
    /\ UNCHANGED <<user_posts, emb_file, openai_api_key, last, nq, cli, io,
                 parked, iso, rl, wp>>

\* the title is looked up again in the transaction of the INSERT
InsertPost_recheck(db_ok) ==
    /\ gen.pc = "Saving"
    /\ IF db_ok /\ ~is_exact_title_exists(gen.user, gen.title).found
       THEN /\ user_posts' = Append(user_posts, [user_id |-> gen.user, title |-> gen.title,
                                                 wp_post_id |-> 0])
            /\ gen' = [gen EXCEPT !.pc = "AppendOriginal", !.db_reply = "ok",
                          !.inserted = TRUE, !.entry_before = title_cache[gen.user]]
       ELSE /\ user_posts' = user_posts
            /\ gen' = [Failed(IF db_ok THEN ExistsMessage ELSE SaveFailedMessage)
                          EXCEPT !.db_reply = IF db_ok THEN "ok" ELSE "error"]
    /\ UNCHANGED <<title_cache, emb_file, openai_api_key, last, nq, cli, io,
                 parked, iso, rl, wp>>

\* lines 839-846 and 853-855: the INSERT, which may raise
InsertPost(db_ok) ==
    /\ gen.pc = "Saving"
    /\ IF db_ok
       THEN /\ user_posts' = Append(user_posts, [user_id |-> gen.user, title |-> gen.title,
                                                 wp_post_id |-> 0])
            /\ gen' = [gen EXCEPT !.pc = "AppendOriginal", !.db_reply = "ok",
                          !.inserted = TRUE, !.entry_before = title_cache[gen.user]]
       ELSE /\ user_posts' = user_posts
            /\ gen' = [Failed(SaveFailedMessage) EXCEPT !.db_reply = "error"]
    /\ UNCHANGED <<title_cache, emb_file, openai_api_key, last, nq, cli, io,
                 parked, iso, rl, wp>>

\* lines 849-850: if user_id in _title_cache: _title_cache[user_id]['original'].append(title)
AppendOriginal ==
    /\ gen.pc = "AppendOriginal"
    /\ IF title_cache[gen.user].present
       THEN /\ title_cache' = [title_cache EXCEPT ![gen.user].original = Append(@, gen.title)]
            /\ gen' = [gen EXCEPT !.pc = "AppendNormalized"]
       ELSE /\ title_cache' = title_cache
            /\ gen' = [gen EXCEPT !.pc = "Accepted", !.status = "success"]
    /\ UNCHANGED <<user_posts, emb_file, openai_api_key, last, nq, cli, io,
                 parked, iso, rl, wp>>

\* line 851: _title_cache[user_id]['normalized'].append(normalize_title(title))
AppendNormalized ==
    /\ gen.pc = "AppendNormalized"
    /\ title_cache' = [title_cache EXCEPT
                          ![gen.user].normalized = Append(@, normalize_title(gen.title))]
    /\ gen' = [gen EXCEPT !.pc = "Accepted", !.status = "success"]
    /\ UNCHANGED <<user_posts, emb_file, openai_api_key, last, nq, cli, io,
                 parked, iso, rl, wp>>

\* the result is returned to the route and the response is sent
Respond ==
    /\ gen.pc \in {"Accepted", "Failed"}
    /\ gen' = NoGen
    /\ UNCHANGED <<user_posts, title_cache, emb_file, openai_api_key, last, nq, cli, io,
                 parked, iso, rl, wp>>

\* a call of get_all_user_titles(user_id, force_refresh)
GetAllUserTitles(u, force_refresh) ==
    /\ last.op = "none"
    /\ \E r \in {get_all_user_titles(u, force_refresh)} :
          /\ title_cache' = r.cache
          /\ last' = [NoCall EXCEPT !.op = "get_all_user_titles", !.user = u,
                         !.force_refresh = force_refresh, !.rebuilt = r.rebuilt,
                         !.cache_read = TRUE]
    /\ UNCHANGED <<user_posts, emb_file, openai_api_key, nq, gen, cli, io,
                 parked, iso, rl, wp>>

\* POST /topics/update (topic_routes.py:40-46)
UpdateEmbeddingsFromDb(u, replies) ==
    /\ \E embeddings \in {update_embeddings_from_db(u, replies)} :
          /\ Len(embeddings) <= MaxStore
          /\ emb_file' = embeddings
    /\ UNCHANGED <<user_posts, title_cache, openai_api_key, last, nq, gen, cli, io,
                 parked, iso, rl, wp>>

GenNext ==
    \/ \E u \in Users : StartGeneration(u)
    \/ \E reply \in BOOLEAN : SuggestTopic(reply)
    \/ \E reply \in BOOLEAN, content \in Contents : GeneratePost(reply, content)
    \/ CheckTitle
    \/ \E db_ok \in BOOLEAN : InsertPost(db_ok)
    \/ AppendOriginal
    \/ AppendNormalized
    \/ Respond
    \/ \E u \in Users, force_refresh \in BOOLEAN : GetAllUserTitles(u, force_refresh)
    \/ \E u \in Users, replies \in [1..MaxRows -> BOOLEAN] : UpdateEmbeddingsFromDb(u, replies)
    \/ NextRequest

GenSpec == Init /\ [][GenNext]_vars

----------------------------------------------------------------------------
(* Two generation requests of one process. The development server answers each request *)
(* in a thread of its own (app.run, threaded by default), and the interpreter may      *)
(* switch from one thread to the other between any two steps: gen is the request whose *)
(* thread runs, parked the one that waits.                                             *)

\* the interpreter hands the processor to the other thread
Switch ==
    /\ gen' = parked
    /\ parked' = gen
    /\ gen # parked
    /\ UNCHANGED <<user_posts, title_cache, emb_file, openai_api_key, last, nq, cli, io,
                 iso, rl, wp>>

RaceNext ==
    \/ \E u \in Users : StartGeneration(u)
    \/ \E reply \in BOOLEAN : SuggestTopic(reply)
    \/ \E reply \in BOOLEAN, content \in Contents : GeneratePost(reply, content)
    \/ CheckTitle
    \/ \E db_ok \in BOOLEAN : InsertPost(db_ok)
    \/ AppendOriginal
    \/ AppendNormalized
    \/ Respond
    \/ Switch

RaceSpec == Init /\ [][RaceNext]_vars

----------------------------------------------------------------------------
(* The rate limiter (utils.py): rate_limit(limit, per) wraps a handler and keeps, in a *)
(* dict of its own per decorated endpoint, the times of the requests it let through,   *)
(* by client address. Time is counted in whole ticks; rl.admitted is the history of    *)
(* the requests that reached the handler, which the code does not keep. The server     *)
(* answers requests in threads, so two requests can be inside the wrapper together.    *)

MaxTime == 2      \* ticks of the clock
MaxRequests == 3  \* requests that arrive at decorated endpoints

\* the arguments of the decorator, per endpoint, with a window of 2 ticks
Decorated ==
    [restore_backup |-> [limit |-> 2, per |-> 2],
     settings       |-> [limit |-> 3, per |-> 2]]

\* [req for req in requests.get(ip, []) if now - req < per]
RECURSIVE CleanOld(_, _, _)
CleanOld(reqs, now, per) ==
    IF reqs = <<>> THEN <<>>
    ELSE IF now - reqs[1] < per
         THEN <<reqs[1]>> \o CleanOld(Tail(reqs), now, per)
         ELSE CleanOld(Tail(reqs), now, per)

\* the requests of the history that are less than per ticks older than now
Preceding(history, now, per) ==
    Cardinality({i \in DOMAIN history : now - history[i] < per})

\* time passes
Tick ==
    /\ rl.now < MaxTime
    /\ rl' = [rl EXCEPT !.now = @ + 1]
    /\ UNCHANGED <<user_posts, title_cache, emb_file, openai_api_key, last, nq, gen, cli, io,
                 parked, iso, wp>>

\* lines 30-34: a request enters wrapped, which reads the clock and the address and
\* replaces the list of the address by its recent part
CleanRequests(r, e, ip) ==
    /\ rl.req[r].pc = "none"
    /\ r = 1 \/ rl.req[1].pc # "none"    \* the first free thread takes the request
    /\ rl.arrived < MaxRequests
    /\ rl' = [rl EXCEPT
                 !.arrived = @ + 1,
                 !.requests[e][ip] = CleanOld(@, rl.now, Decorated[e].per),
                 !.req[r] = [NoRequest EXCEPT
                                !.pc = "cleaned", !.endpoint = e, !.ip = ip, !.now = rl.now]]
    /\ UNCHANGED <<user_posts, title_cache, emb_file, openai_api_key, last, nq, gen, cli, io,
                 parked, iso, wp>>

\* lines 36-38: if len(requests.get(ip, [])) >= limit: return the 429 response
CheckLimit(r) ==
    /\ rl.req[r].pc = "cleaned"
    /\ LET e == rl.req[r].endpoint
           ip == rl.req[r].ip
           seen == Preceding(rl.admitted[e][ip], rl.req[r].now, Decorated[e].per)
       IN  rl' = IF Len(rl.requests[e][ip]) >= Decorated[e].limit
                 THEN [rl EXCEPT !.req[r].pc = "done", !.req[r].seen = seen,
                                 !.req[r].status = 429]
                 ELSE [rl EXCEPT !.req[r].pc = "checked", !.req[r].seen = seen]
    /\ UNCHANGED <<user_posts, title_cache, emb_file, openai_api_key, last, nq, gen, cli, io,
                 parked, iso, wp>>

\* lines 40-43: the time of the request is appended and the handler runs
RecordRequest(r) ==
    /\ rl.req[r].pc = "checked"
    /\ LET e == rl.req[r].endpoint
           ip == rl.req[r].ip
       IN  rl' = [rl EXCEPT
                     !.requests[e][ip] = Append(@, rl.req[r].now),
                     !.admitted[e][ip] = Append(@, rl.req[r].now),
                     !.req[r] = [@ EXCEPT !.pc = "done", !.status = 200,
                                          !.recorded = TRUE, !.ran = TRUE]]
    /\ UNCHANGED <<user_posts, title_cache, emb_file, openai_api_key, last, nq, gen, cli, io,
                 parked, iso, wp>>

\* the response is sent
SendResponse(r) ==
    /\ rl.req[r].pc = "done"
    /\ rl' = [rl EXCEPT !.req[r] = NoRequest]
    /\ UNCHANGED <<user_posts, title_cache, emb_file, openai_api_key, last, nq, gen, cli, io,
                 parked, iso, wp>>

RateNext ==
    \/ Tick
    \/ \E r \in 1..2, e \in Endpoints, ip \in Ips : CleanRequests(r, e, ip)
    \/ \E r \in 1..2 : CheckLimit(r)
    \/ \E r \in 1..2 : RecordRequest(r)
    \/ \E r \in 1..2 : SendResponse(r)

RateSpec == Init /\ [][RateNext]_vars

----------------------------------------------------------------------------
(* sync_wordpress_posts statement by statement (services.py:594-630). A run is started *)
(* by POST /generate/sync (generate_routes.py:148-151) or by the scheduler's cron job   *)
(* (app.py:143-158), each in a thread and on a connection of its own. A connection     *)
(* reads the committed table, and the rows it wrote itself; its first INSERT or UPDATE *)
(* opens a transaction and takes the write lock of the database file, which it keeps   *)
(* until commit; another connection's write waits for the lock. The title of a row     *)
(* stands for all the columns the statements write together (title, content,           *)
(* published_at); a row with a wp_post_id has synced = 1, others the default 0.        *)

MaxFetched == 2  \* posts in one answer of WordPress

\* the table before the runs: a local post of user 1 and a synced post of user 2
SyncTable ==
    <<[user_id |-> 1, title |-> KubeGuides, wp_post_id |-> 0],
      [user_id |-> 2, title |-> KubeGuides, wp_post_id |-> 1]>>

\* WordPress answers: a failure, or a list of posts, in which an id may repeat
FetchedPosts ==
    {[ok |-> FALSE, posts |-> <<>>]} \cup
    {[ok |-> TRUE, posts |-> ps] : ps \in SeqsUpTo([id : WpIds, title : PostTitles], MaxFetched)}

SyncInit ==
    /\ user_posts = SyncTable
    /\ title_cache = [u \in Users |-> NoEntry]
    /\ emb_file = <<>>
    /\ openai_api_key = [u \in Users |-> u = 1]
    /\ last = NoCall
    /\ nq = NoQuery
    /\ gen = NoGen
    /\ cli = NoCli
    /\ io = NoIo
    /\ parked = NoGen
    /\ iso = NoIso
    /\ rl = NoRl
    /\ wp = NoWp

SyncUnchanged ==
    UNCHANGED <<title_cache, emb_file, openai_api_key, last, nq, gen, cli, io, parked, iso, rl>>

\* the rows the connection of run r reads
Visible(r) == IF wp.lock = r THEN wp.run[r].rows ELSE user_posts

\* lines 597-609: the posts are fetched; any status but 200 returns False
SyncFetch(r, u, response) ==
    /\ wp.run[r].pc = "idle"
    /\ r = 1 \/ wp.run[1].pc # "idle"    \* the first free thread takes the run
    /\ wp' = [wp EXCEPT !.run[r] =
                 IF response.ok
                 THEN [NoSync EXCEPT !.pc = "select", !.user = u, !.posts = response.posts,
                                     !.i = 1]
                 ELSE [NoSync EXCEPT !.pc = "returned", !.user = u]]
    /\ user_posts' = user_posts
    /\ SyncUnchanged

\* lines 610-617: the next post of the loop and the SELECT id of its row
SyncSelect(r) ==
    /\ wp.run[r].pc = "select"
    /\ wp.run[r].i <= Len(wp.run[r].posts)
    /\ LET post == wp.run[r].posts[wp.run[r].i]
           hit == {k \in DOMAIN Visible(r) : /\ Visible(r)[k].wp_post_id = post.id
                                             /\ Visible(r)[k].user_id = wp.run[r].user}
       IN  wp' = [wp EXCEPT !.run[r].pc = "write",
                            !.run[r].exists = IF hit = {} THEN 0
                                              ELSE CHOOSE k \in hit : \A j \in hit : k <= j]
    /\ user_posts' = user_posts
    /\ SyncUnchanged

\* lines 618-623: the UPDATE of the row found, or the INSERT of a new row
SyncWrite(r) ==
    /\ wp.run[r].pc = "write"
    /\ wp.lock \in {0, r}
    /\ LET post == wp.run[r].posts[wp.run[r].i]
           k == wp.run[r].exists
           rows == IF k # 0
                   THEN [Visible(r) EXCEPT ![k].title = post.title]
                   ELSE Append(Visible(r), [user_id |-> wp.run[r].user, title |-> post.title,
                                            wp_post_id |-> post.id])
       IN  wp' = [wp EXCEPT !.lock = r, !.run[r].pc = "select", !.run[r].i = @ + 1,
                            !.run[r].rows = rows, !.run[r].wrote = TRUE]
    /\ user_posts' = user_posts
    /\ SyncUnchanged

\* lines 624-627: conn.commit() after the loop, and return True
SyncCommit(r) ==
    /\ wp.run[r].pc = "select"
    /\ wp.run[r].i > Len(wp.run[r].posts)
    /\ user_posts' = Visible(r)
    /\ wp' = [wp EXCEPT !.lock = IF wp.lock = r THEN 0 ELSE @,
                        !.run[r].pc = "returned", !.run[r].ret = TRUE,
                        !.run[r].rows = Visible(r)]
    /\ SyncUnchanged

\* the caller has the result
SyncReturn(r) ==
    /\ wp.run[r].pc = "returned"
    /\ wp' = [wp EXCEPT !.run[r] = NoSync]
    /\ user_posts' = user_posts
    /\ SyncUnchanged

SyncNext ==
    \/ \E r \in 1..2, u \in Users, response \in FetchedPosts : SyncFetch(r, u, response)
    \/ \E r \in 1..2 : SyncSelect(r)
    \/ \E r \in 1..2 : SyncWrite(r)
    \/ \E r \in 1..2 : SyncCommit(r)
    \/ \E r \in 1..2 : SyncReturn(r)

SyncSpec == SyncInit /\ [][SyncNext]_vars

----------------------------------------------------------------------------
(* The command-line script (auto_post.py): generate_and_review_post asks the language  *)
(* model for a post, derives its title and asks again while the title is in            *)
(* used_titles, the set read from used_titles.txt when the script starts. The content  *)
(* is one string with line ends. The model never returns an empty content here (the    *)
(* code then fails at splitlines()[0]).                                                *)

MaxRegenerate == 1  \* times the user asks for a new version in one call

\* str.strip() removes blanks and line ends at both ends
IsWhite(c) == c \in {" ", "\t", "\n"}

RECURSIVE LeadWhite(_, _)
LeadWhite(s, i) == IF i <= Len(s) /\ IsWhite(s[i]) THEN 1 + LeadWhite(s, i + 1) ELSE 0

RECURSIVE TrailWhite(_, _)
TrailWhite(s, i) == IF i >= 1 /\ IsWhite(s[i]) THEN 1 + TrailWhite(s, i - 1) ELSE 0

StripWhite(s) ==
    LET a == LeadWhite(s, 1) IN
    IF a = Len(s) THEN <<>> ELSE SubSeq(s, a + 1, Len(s) - TrailWhite(s, Len(s)))

\* position of the first c in s at or after i, 0 if there is none
RECURSIVE IndexOf(_, _, _)
IndexOf(s, c, i) ==
    IF i > Len(s) THEN 0 ELSE IF s[i] = c THEN i ELSE IndexOf(s, c, i + 1)

\* s.split(c)[0], and for c = "\n" s.splitlines()[0]
Before(s, c) == LET k == IndexOf(s, c, 1) IN IF k = 0 THEN s ELSE SubSeq(s, 1, k - 1)

\* "\n".join(s.splitlines()[1:])
After(s, c) == LET k == IndexOf(s, c, 1) IN IF k = 0 THEN <<>> ELSE Drop(s, k)

\* the title of a first line that starts with '#', and the content without that line
MarkdownFirstLine(content) ==
    LET first_line == StripWhite(Before(content, "\n")) IN
    IF first_line # <<>> /\ first_line[1] = "#"
    THEN [generated_title |-> StripWhite(Drop(first_line, HashRun(first_line, 1))),
          content |-> StripWhite(After(content, "\n"))]
    ELSE [generated_title |-> <<>>, content |-> content]

\* generate_title: the model's reply stripped, None (here the empty title) on a failure
generate_title(content, reply) == IF reply = NoneVal THEN <<>> ELSE StripWhite(reply)

\* the first sentence of the content, cut to 57 characters and "..." above 60
FirstSentence(content) ==
    LET first_sentence == StripWhite(Before(content, ".")) IN
    IF Len(first_sentence) > 60
    THEN SubSeq(first_sentence, 1, 57) \o <<".", ".", ".">>
    ELSE first_sentence

\* the test that ends the loop: the title is not in used_titles
TitleIsNew(generated_title, used_titles) == Lower(generated_title) \notin used_titles

\* contents the language model returns to the script
CliContents ==
    {<<"#", " ">> \o DockerGuide \o <<"\n">> \o ShortAb,
     KubeGuides \o <<"\n">> \o ShortAb,
     <<"#", "#", " ">> \o Ansible,
     <<"#", "\n">> \o ShortAb,
     Ansible \o <<".", " ">> \o ShortAb}

\* titles the language model returns to generate_title (NoneVal: the call fails)
TitleReplies == {DockerGuide, KubeGuides, NoneVal}

\* lines of used_titles.txt, stripped and lower-cased
UsedTitlesUniverse == {Lower(DockerGuide), Lower(KubeGuides), Lower(Ansible)}

\* titles the user types at "Enter new title: "
NewTitles == {<<>>, KubeGuides}

CliInit ==
    /\ user_posts = <<>>
    /\ title_cache = [u \in Users |-> NoEntry]
    /\ emb_file = <<>>
    /\ openai_api_key = [u \in Users |-> u = 1]
    /\ last = NoCall
    /\ nq = NoQuery
    /\ gen = NoGen
    /\ io = NoIo
    /\ parked = NoGen
    /\ iso = NoIso
    /\ rl = NoRl
    /\ wp = NoWp
    /\ \E used_titles \in SUBSET UsedTitlesUniverse :
          cli = [NoCli EXCEPT !.used_titles = used_titles]

CliUnchanged == UNCHANGED <<user_posts, title_cache, emb_file, openai_api_key, last, nq, gen, io,
                 parked, iso, rl, wp>>

\* the end of one pass of the while loop: leave it with a new title, else ask again
LoopEnd(generated_title, content) ==
    IF TitleIsNew(generated_title, cli.used_titles)
    THEN [cli EXCEPT !.pc = "Preview", !.generated_title = generated_title,
                     !.content = content]
    ELSE [cli EXCEPT !.pc = "Generating", !.generated_title = <<>>, !.content = <<>>]

\* main_menu calls generate_and_review_post
CliStart ==
    /\ cli.pc = "idle"
    /\ cli' = [cli EXCEPT !.pc = "Generating"]
    /\ CliUnchanged

\* the chat completion of the loop and the title of the first line
CliGenerate(reply, content) ==
    /\ cli.pc = "Generating"
    /\ cli' = IF ~reply
              THEN [cli EXCEPT !.pc = "Failed"]
              ELSE LET m == MarkdownFirstLine(content) IN
                   IF m.generated_title # <<>>
                   THEN LoopEnd(m.generated_title, m.content)
                   ELSE [cli EXCEPT !.pc = "Titling", !.content = m.content]
    /\ CliUnchanged

\* no markdown title: generate_title, else the first sentence
CliGenerateTitle(reply) ==
    /\ cli.pc = "Titling"
    /\ cli' = LET t == generate_title(cli.content, reply) IN
              LoopEnd(IF t # <<>> THEN t ELSE FirstSentence(cli.content), cli.content)
    /\ CliUnchanged

\* a new version is generated by a recursive call
Regenerate ==
    /\ cli.regenerated < MaxRegenerate
    /\ cli' = [cli EXCEPT !.pc = "Generating", !.generated_title = <<>>, !.content = <<>>,
                          !.regenerated = @ + 1]

\* the preview and the user's choice 1-4
CliReview(choice, new_title) ==
    /\ cli.pc = "Preview"
    /\ CASE choice = 1 -> cli' = [cli EXCEPT !.pc = "Accepted", !.ret_title = cli.generated_title]
         [] choice = 2 -> Regenerate
         [] choice = 3 -> IF StripWhite(new_title) # <<>>
                          THEN cli' = [cli EXCEPT !.pc = "Accepted",
                                                  !.ret_title = StripWhite(new_title)]
                          ELSE Regenerate
         [] OTHER -> cli' = [cli EXCEPT !.pc = "Cancelled"]
    /\ CliUnchanged

CliNext ==
    \/ CliStart
    \/ \E reply \in BOOLEAN, content \in CliContents : CliGenerate(reply, content)
    \/ \E reply \in TitleReplies : CliGenerateTitle(reply)
    \/ \E choice \in 1..4, new_title \in NewTitles : CliReview(choice, new_title)

\* the script is one sequential process: a step that can be taken is taken
CliSpec == CliInit /\ [][CliNext]_vars /\ WF_vars(CliNext)

----------------------------------------------------------------------------
(* The embedding file on disk (embeddings.load_embeddings, save_embeddings and their   *)
(* callers). io.file is the file as another process or request finds it: missing,      *)
(* unreadable, text that is not JSON ("invalid": an empty or cut-off file included),   *)
(* or a JSON array, string or object. A JSON value is [type, items]. One save is in    *)
(* flight at a time; loads and the read-only callers run at any moment.                *)

FileMissing == [kind |-> "missing", value |-> <<>>]

EmptyDict == [type |-> "object", items |-> <<>>]

NotLoaded == [type |-> "none", items |-> <<>>]

\* load_embeddings on a file: {} when the file does not exist (line 62) or when open or
\* json.load raises (lines 63-65), else whatever json.load returns (line 61)
load_embeddings_from(file) ==
    CASE file.kind = "missing" -> EmptyDict
      [] file.kind \in {"unreadable", "invalid"} -> EmptyDict
      [] OTHER -> [type |-> file.kind, items |-> file.value]

\* `not embeddings` is false for a non-empty dict, list or str
Truthy(value) == value.items # <<>>

\* .items(), .keys() and item assignment by a str key exist on a dict only
IsDict(value) == value.type = "object"

\* what a call does: it raises, or it returns ret; saves tells that it goes on to
\* save_embeddings(new) and returns what the save returns
Outcome(raised, ret, topic, ranking, loaded, saves, new) ==
    [raised |-> raised, ret |-> ret, topic |-> topic, ranking |-> ranking,
     loaded |-> loaded, saves |-> saves, new |-> new]

Returns(ret, topic, loaded) == Outcome(FALSE, ret, topic, <<>>, loaded, FALSE, <<>>)

Raises(loaded) == Outcome(TRUE, FALSE, NoneVal, <<>>, loaded, FALSE, <<>>)

\* is_similar_to_existing on a file
is_similar_to_existing_from(file, text, user_id, reply) ==
    IF TooShortForSemantic(text) THEN Returns(FALSE, NoneVal, NotLoaded)
    ELSE LET normalized_text == normalize_text(text)
             got == get_embedding(normalized_text, user_id, reply)
         IN  IF got.value = NoEmbedding THEN Returns(FALSE, NoneVal, NotLoaded)
             ELSE LET embeddings == load_embeddings_from(file) IN
                  IF ~Truthy(embeddings) THEN Returns(FALSE, NoneVal, embeddings)
                  ELSE IF ~IsDict(embeddings) THEN Raises(embeddings)
                  ELSE LET scan == SimilarityScan(embeddings.items, 1, normalized_text,
                                                  got.value, Score(0, 1), NoneVal)
                       IN  IF scan.raised THEN Raises(embeddings)
                           ELSE Returns(scan.exact \/ AboveThreshold(scan.max_similarity),
                                        scan.topic, embeddings)

\* add_embedding on a file, up to its call of save_embeddings
add_embedding_from(file, text, user_id, reply) ==
    LET got == get_embedding(text, user_id, reply) IN
    IF got.value = NoEmbedding THEN Returns(FALSE, NoneVal, NotLoaded)
    ELSE LET embeddings == load_embeddings_from(file) IN
         IF ~IsDict(embeddings) THEN Raises(embeddings)
         ELSE Outcome(FALSE, FALSE, NoneVal, <<>>, embeddings, TRUE,
                      DictSet(embeddings.items, text, got.value))

\* the entries whose topic is one of the titles, in file order
RECURSIVE KeepTitles(_, _)
KeepTitles(embeddings, titles) ==
    IF embeddings = <<>> THEN <<>>
    ELSE IF \E i \in DOMAIN titles : titles[i] = embeddings[1].topic
         THEN <<embeddings[1]>> \o KeepTitles(Tail(embeddings), titles)
         ELSE KeepTitles(Tail(embeddings), titles)

\* cleanup_embeddings on a file, up to its call of save_embeddings; an exception is
\* caught and the function returns False
cleanup_embeddings_from(file, user_id) ==
    LET current_titles == SelectTitles(user_posts, user_id)
        embeddings == load_embeddings_from(file)
    IN  IF ~Truthy(embeddings) THEN Returns(TRUE, NoneVal, embeddings)
        ELSE IF ~IsDict(embeddings) THEN Returns(FALSE, NoneVal, embeddings)
        ELSE LET kept == KeepTitles(embeddings.items, current_titles) IN
             IF kept # embeddings.items
             THEN Outcome(FALSE, FALSE, NoneVal, <<>>, embeddings, TRUE, kept)
             ELSE Returns(TRUE, NoneVal, embeddings)

\* sorted(..., reverse=True) is stable: x goes behind the entries that score as much
RECURSIVE InsertRanked(_, _)
InsertRanked(ranking, x) ==
    IF ranking = <<>> THEN <<x>>
    ELSE IF ScoreGt(x.similarity, ranking[1].similarity)
         THEN <<x>> \o ranking
         ELSE <<ranking[1]>> \o InsertRanked(Tail(ranking), x)

RECURSIVE Ranked(_, _, _)
Ranked(embeddings, i, new_embedding) ==
    IF i = 0 THEN <<>>
    ELSE InsertRanked(Ranked(embeddings, i - 1, new_embedding),
                      [topic |-> embeddings[i].topic,
                       similarity |-> cosine_similarity(new_embedding,
                                                        embeddings[i].embedding)])

\* get_similarity_stats on a file
get_similarity_stats_from(file, text, user_id, reply) ==
    LET got == get_embedding(text, user_id, reply) IN
    IF got.value = NoEmbedding THEN Returns(TRUE, NoneVal, NotLoaded)
    ELSE LET embeddings == load_embeddings_from(file) IN
         IF ~Truthy(embeddings) THEN Returns(TRUE, NoneVal, embeddings)
         ELSE IF ~IsDict(embeddings) THEN Raises(embeddings)
         ELSE IF \E i \in DOMAIN embeddings.items :
                    Len(embeddings.items[i].embedding) # Len(got.value)
              THEN Raises(embeddings)
         ELSE Outcome(FALSE, TRUE, NoneVal,
                      Ranked(embeddings.items, Len(embeddings.items), got.value),
                      embeddings, FALSE, <<>>)

\* texts passed to the functions of embeddings.py
StoreTexts == {DockerGuide, KubeGuides}

\* one stored entry
OneEntry == <<[topic |-> KubeGuides, embedding |-> E1]>>

\* a vector of another dimension (written by another embedding model) before an entry
\* of the provider's dimension
MixedEntries == <<[topic |-> ShortAb, embedding |-> <<1, 0, 0>>],
                  [topic |-> KubeGuides, embedding |-> E1]>>

\* the files the process may find when it starts
FileStates ==
    <<FileMissing,
     [kind |-> "unreadable", value |-> <<>>],
     [kind |-> "invalid", value |-> <<>>],
     [kind |-> "array", value |-> <<>>],
     [kind |-> "array", value |-> <<KubeGuides>>],
     [kind |-> "string", value |-> ShortAb],
     [kind |-> "object", value |-> <<>>],
     [kind |-> "object", value |-> OneEntry],
     [kind |-> "object", value |-> MixedEntries]>>

StoreInit ==
    /\ user_posts \in {<<>>, <<[user_id |-> 1, title |-> DockerGuide, wp_post_id |-> 0]>>,
                       <<[user_id |-> 2, title |-> KubeGuides, wp_post_id |-> 0]>>}
    /\ title_cache = [u \in Users |-> NoEntry]
    /\ emb_file = <<>>
    /\ openai_api_key = [u \in Users |-> u = 1]
    /\ last = NoCall
    /\ nq = NoQuery
    /\ gen = NoGen
    /\ cli = NoCli
    /\ parked = NoGen
    /\ iso = NoIso
    /\ rl = NoRl
    /\ wp = NoWp
    /\ \E i \in DOMAIN FileStates : io = [NoIo EXCEPT !.file = FileStates[i]]

StoreUnchanged ==
    UNCHANGED <<user_posts, title_cache, emb_file, openai_api_key, last, nq, gen, cli,
                 parked, iso, rl, wp>>

\* the record of a call: the file and the save it found, its arguments and its outcome
Called(op, text, user_id, reply, outcome) ==
    [op |-> op, text |-> text, user |-> user_id, reply |-> reply,
     file |-> io.file, save |-> io.save, outcome |-> outcome]

\* save_embeddings(new) is called by add_embedding(key) (by cleanup_embeddings when key
\* is NoneVal); replaced is the mapping the file holds, which the save is about to replace
SaveCalled(key, new) ==
    [pc |-> "opening", new |-> new, written |-> 0, ret |-> FALSE,
     key |-> key, replaced |-> load_embeddings_from(io.file).items]

\* the call goes on to save_embeddings(outcome.new)
StartSave(key, outcome) ==
    IF outcome.saves THEN SaveCalled(key, outcome.new) ELSE io.save

NoSaveInFlight == io.save.pc \in {"idle", "done", "failed"}

\* load_embeddings called by a request (get_embedding_stats, or any caller's first step)
StoreLoad ==
    /\ io' = [io EXCEPT !.call = Called("load_embeddings", <<>>, 0, FALSE,
                                        Returns(TRUE, NoneVal, load_embeddings_from(io.file)))]
    /\ StoreUnchanged

StoreIsSimilar(text, u, reply) ==
    /\ \E outcome \in {is_similar_to_existing_from(io.file, text, u, reply)} :
          io' = [io EXCEPT !.call = Called("is_similar_to_existing", text, u, reply, outcome)]
    /\ StoreUnchanged

StoreStats(text, u, reply) ==
    /\ \E outcome \in {get_similarity_stats_from(io.file, text, u, reply)} :
          io' = [io EXCEPT !.call = Called("get_similarity_stats", text, u, reply, outcome)]
    /\ StoreUnchanged

StoreAdd(text, u, reply) ==
    /\ NoSaveInFlight
    /\ \E outcome \in {add_embedding_from(io.file, text, u, reply)} :
          /\ Len(outcome.new) <= MaxStore
          /\ io' = [io EXCEPT !.call = Called("add_embedding", text, u, reply, outcome),
                              !.save = StartSave(text, outcome)]
    /\ StoreUnchanged

\* add_embedding of request r, up to its load_embeddings and embeddings[text] = embedding
StoreAddLoad(r, text, u, reply) ==
    /\ io.waiting[r].pc = "none"
    /\ \E outcome \in {add_embedding_from(io.file, text, u, reply)} :
          /\ outcome.saves
          /\ Len(outcome.new) <= MaxStore
          /\ io' = [io EXCEPT !.waiting[r] = [pc |-> "loaded", text |-> text,
                                              new |-> outcome.new]]
    /\ StoreUnchanged

\* request r goes on to save_embeddings(embeddings)
StoreAddSave(r) ==
    /\ io.waiting[r].pc = "loaded"
    /\ NoSaveInFlight
    /\ io' = [io EXCEPT !.save = SaveCalled(io.waiting[r].text, io.waiting[r].new),
                        !.waiting[r] = NoIo.waiting[r]]
    /\ StoreUnchanged

StoreCleanup(u) ==
    /\ NoSaveInFlight
    /\ \E outcome \in {cleanup_embeddings_from(io.file, u)} :
          io' = [io EXCEPT !.call = Called("cleanup_embeddings", <<>>, u, FALSE, outcome),
                           !.save = StartSave(NoneVal, outcome)]
    /\ StoreUnchanged

\* open(EMBEDDINGS_FILE, 'w') truncates the file
SaveOpen ==
    /\ io.save.pc = "opening"
    /\ io' = [io EXCEPT !.save.pc = "writing",
                        !.file = [kind |-> "invalid", value |-> <<>>]]
    /\ StoreUnchanged

\* json.dump writes the text piece by piece: one more entry has reached the file
SaveWrite ==
    /\ io.save.pc = "writing"
    /\ io.save.written < Len(io.save.new)
    /\ io' = [io EXCEPT !.save.written = @ + 1,
                        !.file = [kind |-> "invalid",
                                  value |-> SubSeq(io.save.new, 1, io.save.written + 1)]]
    /\ StoreUnchanged

\* the closing brace is written and the file is closed: save_embeddings returns True
SaveClose ==
    /\ io.save.pc = "writing"
    /\ io.save.written = Len(io.save.new)
    /\ io' = [io EXCEPT !.save.pc = "done", !.save.ret = TRUE,
                        !.file = [kind |-> "object", value |-> io.save.new]]
    /\ StoreUnchanged

\* open or a write raises (permissions, full disk): save_embeddings logs and returns False
SaveFail ==
    /\ io.save.pc \in {"opening", "writing"}
    /\ io' = [io EXCEPT !.save.pc = "failed", !.save.ret = FALSE]
    /\ StoreUnchanged

StoreNext ==
    \/ StoreLoad
    \/ \E text \in StoreTexts, u \in Users, reply \in BOOLEAN : StoreIsSimilar(text, u, reply)
    \/ \E text \in StoreTexts, u \in Users, reply \in BOOLEAN : StoreStats(text, u, reply)
    \/ \E text \in StoreTexts, u \in Users, reply \in BOOLEAN : StoreAdd(text, u, reply)
    \/ \E u \in Users : StoreCleanup(u)
    \/ SaveOpen
    \/ SaveWrite
    \/ SaveClose
    \/ SaveFail

StoreSpec == StoreInit /\ [][StoreNext]_vars

\* two requests that upsert, interleaved
UpsertNext ==
    \/ \E r \in 1..2, text \in StoreTexts, u \in Users, reply \in BOOLEAN :
          StoreAddLoad(r, text, u, reply)
    \/ \E r \in 1..2 : StoreAddSave(r)
    \/ SaveOpen
    \/ SaveWrite
    \/ SaveClose
    \/ SaveFail

UpsertSpec == StoreInit /\ [][UpsertNext]_vars


----------------------------------------------------------------------------
(* Two users on one embedding file. topic_embeddings.json is one file for the whole    *)
(* installation (EMBEDDINGS_FILE, embeddings.py:11) and no entry names its user. The   *)
(* same run of user 1 is followed on two files: iso.with, on which user 2 registers    *)
(* topics and runs the garbage collection as well, and iso.without, on which only user *)
(* 1 acts. Both users have a credential, and every save succeeds.                      *)

IsoTexts == {DockerGuide, KubeGuides, Ansible}

IsoInit ==
    /\ user_posts = <<[user_id |-> 1, title |-> DockerGuide, wp_post_id |-> 0],
                      [user_id |-> 2, title |-> KubeGuides, wp_post_id |-> 0]>>
    /\ title_cache = [u \in Users |-> NoEntry]
    /\ emb_file = <<>>
    /\ openai_api_key = [u \in Users |-> TRUE]
    /\ last = NoCall
    /\ nq = NoQuery
    /\ gen = NoGen
    /\ cli = NoCli
    /\ io = NoIo
    /\ parked = NoGen
    /\ iso = NoIso
    /\ rl = NoRl
    /\ wp = NoWp

IsoUnchanged ==
    UNCHANGED <<user_posts, title_cache, emb_file, openai_api_key, last, nq, gen, cli, io,
                parked, rl, wp>>

\* the file after a call that went on to save_embeddings(new)
Saved(file, outcome) ==
    IF outcome.saves THEN [kind |-> "object", value |-> outcome.new] ELSE file

\* user 1 registers a topic: add_embedding(text, 1), in both runs
IsoAddOwn(text, reply) ==
    /\ \E a \in {add_embedding_from(iso.with, text, 1, reply)},
          b \in {add_embedding_from(iso.without, text, 1, reply)} :
          /\ Len(Saved(iso.with, a).value) <= MaxStore
          /\ iso' = [iso EXCEPT !.with = Saved(@, a), !.without = Saved(@, b),
                                !.registered = IF a.saves THEN @ \cup {text} ELSE @,
                                !.decision = [made |-> FALSE]]
    /\ IsoUnchanged

\* user 2 registers a topic: add_embedding(text, 2), in the run with user 2 only
IsoAddOther(text, reply) ==
    /\ \E a \in {add_embedding_from(iso.with, text, 2, reply)} :
          /\ Len(Saved(iso.with, a).value) <= MaxStore
          /\ iso' = [iso EXCEPT !.with = Saved(@, a), !.decision = [made |-> FALSE]]
    /\ IsoUnchanged

\* user 2 requests POST /topics/cleanup: cleanup_embeddings(2)
IsoCleanupOther ==
    /\ \E a \in {cleanup_embeddings_from(iso.with, 2)} :
          iso' = [iso EXCEPT !.with = Saved(@, a), !.decision = [made |-> FALSE]]
    /\ IsoUnchanged

\* user 1 asks is_similar_to_existing(text, 1), in both runs
IsoIsSimilar(text, reply) ==
    /\ \E a \in {is_similar_to_existing_from(iso.with, text, 1, reply)},
          b \in {is_similar_to_existing_from(iso.without, text, 1, reply)} :
          iso' = [iso EXCEPT !.decision =
                     [made |-> TRUE, text |-> text,
                      with |-> [raised |-> a.raised, ret |-> a.ret, topic |-> a.topic],
                      without |-> [raised |-> b.raised, ret |-> b.ret, topic |-> b.topic]]]
    /\ IsoUnchanged

IsoNext ==
    \/ \E text \in IsoTexts, reply \in BOOLEAN : IsoAddOwn(text, reply)
    \/ \E text \in IsoTexts, reply \in BOOLEAN : IsoAddOther(text, reply)
    \/ IsoCleanupOther
    \/ \E text \in IsoTexts, reply \in BOOLEAN : IsoIsSimilar(text, reply)

IsoSpec == IsoInit /\ [][IsoNext]_vars

----------------------------------------------------------------------------
(* Properties of the duplicate guard (checked under Spec). The formulas read the  *)
(* response of the last call from `last`; is_similar_post_exists,                *)
(* is_similar_to_existing leave user_posts and title_cache as they were, and     *)
(* is_similar_to_existing leaves emb_file as it was, so those are the values the *)
(* call saw.                                                                     *)

\* some post of the user has the same normalised title, of at least 5 characters
ExactInPostStore(u, t) ==
    /\ Len(normalize_title(t)) >= 5
    /\ \E i \in DOMAIN user_posts :
          /\ user_posts[i].user_id = u
          /\ normalize_title(user_posts[i].title) = normalize_title(t)

\* the titles of the user's posts, in store order
TitlesOfUser(u) ==
    LET mine == SelectSeq(user_posts, LAMBDA row : row.user_id = u)
    IN  [i \in DOMAIN mine |-> mine[i].title]

\* the cosine of a and b is strictly greater than 0.92 = 23/25
CosineAbove92(a, b) == 25 * Dot(a, b) > 23 * Norm(a) * Norm(b)

\* the cosine of a and b is exactly 0.92
CosineIs92(a, b) == 25 * Dot(a, b) = 23 * Norm(a) * Norm(b)

\* some stored topic has the same normalised form as t
ExactInEmbeddings(t) ==
    \E i \in DOMAIN emb_file : normalize_text(emb_file[i].topic) = normalize_text(t)

\* C1 as stated: is_duplicate returns true iff the Title Cache exact check
\* exists(user, title) or the semantic check succeeds, and on a miss the embedding of the
\* unnormalised title has been upserted.
C1_CacheOrSemantic ==
    last.op = "is_similar_post_exists" =>
        /\ last.ret = (title_exists_in_db(last.user, last.title).ret \/ last.similar)
        /\ ~last.ret => HasKey(emb_file, last.title)

\* C1 amended: the exact check of is_duplicate is is_exact_title_exists, which reads the
\* post store (not the title cache) and is tried first; the call returns true iff that
\* check or the semantic check succeeds; nothing is registered when it returns true; on a
\* miss it attempts the upsert, and when add_embedding succeeds the file maps the
\* unnormalised title to its embedding.
C1_PostStoreOrSemantic ==
    last.op = "is_similar_post_exists" =>
        /\ last.exact = ExactInPostStore(last.user, last.title)
        /\ last.exact => (~last.similar /\ last.contacted = 0 /\ ~last.store_read)
        /\ last.ret = (ExactInPostStore(last.user, last.title) \/ last.similar)
        /\ last.ret => ~last.registered
        /\ last.registered =>
              \E i \in DOMAIN emb_file :
                  /\ emb_file[i].topic = last.title
                  /\ emb_file[i].embedding = EmbeddingOf(last.title)

\* the title cache holds the title, the post store does not, and the call registered it
C1_Witness ==
    /\ last.op = "is_similar_post_exists"
    /\ ~last.ret
    /\ last.registered
    /\ title_exists_in_db(last.user, last.title).ret
    /\ ~ExactInPostStore(last.user, last.title)

\* C2 as stated: after is_duplicate(user, text) returned false, the immediately following
\* is_duplicate(user, text) returns true, for every text and also when the provider fails.
C2_RepeatIsDuplicate ==
    (last.op = "is_similar_post_exists" /\ last.repeat) => last.ret

\* C2 amended: if is_duplicate(user, text) returned false for a text of at least 10
\* characters and registered it (add_embedding succeeded), the immediately following
\* is_duplicate(user, text) returns true, by the exact normalised match in the store,
\* whenever the provider again returns the query embedding; for a text of fewer than 10
\* characters the repeated call returns false again.
C2_RepeatAfterRegistration ==
    /\ (/\ last.op = "is_similar_post_exists"
        /\ last.repeat_registered
        /\ Len(last.title) >= 10
        /\ last.emb # NoEmbedding)
       => (/\ last.ret
           /\ last.similar
           /\ normalize_text(last.topic) = normalize_text(last.title))
    /\ (last.op = "is_similar_post_exists" /\ last.repeat /\ Len(last.title) < 10)
       => ~last.ret

\* a repeated call that found the title registered by the call before it
C2_Witness ==
    /\ last.op = "is_similar_post_exists"
    /\ last.repeat_registered
    /\ Len(last.title) >= 10
    /\ last.emb # NoEmbedding
    /\ last.ret

\* C3: for a title whose normalised form has at least 5 characters, exists(user, title) is
\* true iff the normalised title is in the normalised list of that user's cache entry; an
\* entry built by the call holds the titles of that user's posts only.
C3_ExistsIffCached ==
    (last.op = "title_exists_in_db" /\ Len(normalize_title(last.title)) >= 5) =>
        /\ last.cache_read
        /\ title_cache[last.user].present
        /\ last.ret = (\E i \in DOMAIN title_cache[last.user].normalized :
                          title_cache[last.user].normalized[i] = normalize_title(last.title))
        /\ last.rebuilt =>
              /\ title_cache[last.user].original = TitlesOfUser(last.user)
              /\ title_cache[last.user].normalized =
                    [i \in DOMAIN TitlesOfUser(last.user) |->
                        normalize_title(TitlesOfUser(last.user)[i])]

\* cache ["Docker Guide"]: exists(user, "# docker  guide") is true
C3_Witness ==
    /\ last.op = "title_exists_in_db"
    /\ last.title = HashDockerGuide
    /\ title_cache[last.user].original = <<DockerGuide>>
    /\ last.ret

\* C4: for a query of at least 10 characters with an embedding and no exact normalised
\* match in the store, is_near_duplicate reports a duplicate iff some stored embedding has
\* a similarity strictly greater than 0.92 (so a maximum of exactly 0.92 is no duplicate),
\* whoever the user is.
C4_StrictThreshold ==
    (/\ last.op = "is_similar_to_existing"
     /\ Len(last.title) >= 10
     /\ last.emb # NoEmbedding
     /\ ~ExactInEmbeddings(last.title))
    => last.ret = (\E i \in DOMAIN emb_file : CosineAbove92(last.emb, emb_file[i].embedding))

\* the best stored score is exactly 0.92 and the query is not a duplicate
C4_Witness ==
    /\ last.op = "is_similar_to_existing"
    /\ Len(last.title) >= 10
    /\ last.emb # NoEmbedding
    /\ ~ExactInEmbeddings(last.title)
    /\ \E i \in DOMAIN emb_file : CosineIs92(last.emb, emb_file[i].embedding)
    /\ ~last.ret

\* C5: whenever a stored topic has the same normalised form as the query (of at least 10
\* characters), is_near_duplicate returns (true, that topic) without any call of the
\* embedding provider, also when the provider or the credential is missing. The code asks
\* for the embedding first and gives up when there is none.
C5_ExactMatchNoProvider ==
    (/\ last.op = "is_similar_to_existing"
     /\ Len(last.title) >= 10
     /\ ExactInEmbeddings(last.title))
    => (/\ last.ret
        /\ normalize_text(last.topic) = normalize_text(last.title)
        /\ last.contacted = 0)

\* C6: when the embedding call fails (no credential, or the provider raises),
\* is_near_duplicate returns (false, None) and is_duplicate goes on as for a unique title;
\* without a credential the provider is not contacted.
C6_ProviderFailureAssumesUnique ==
    /\ (last.op = "is_similar_to_existing" /\ Len(last.title) >= 10 /\ last.emb = NoEmbedding)
       => (~last.ret /\ last.topic = NoneVal /\ ~last.store_read)
    /\ (/\ last.op = "is_similar_post_exists"
        /\ ~last.exact
        /\ Len(last.title) >= 10
        /\ last.emb = NoEmbedding)
       => (~last.ret /\ ~last.similar)
    /\ (last.op \in {"is_similar_to_existing", "is_similar_post_exists"}
        /\ ~openai_api_key[last.user])
       => (last.contacted = 0 /\ last.emb = NoEmbedding /\ ~last.registered)

\* the provider raised for a user with a credential; the store holds other topics only
C6_Witness ==
    /\ last.op = "is_similar_to_existing"
    /\ Len(last.title) >= 10
    /\ openai_api_key[last.user]
    /\ last.contacted = 1
    /\ last.emb = NoEmbedding
    /\ emb_file # <<>>
    /\ ~ExactInEmbeddings(last.title)
    /\ ~last.ret

\* C7: for a text of fewer than 10 characters (before normalisation) is_near_duplicate
\* returns (false, None) without a provider call and without reading the store.
C7_TooShortFloor ==
    (last.op = "is_similar_to_existing" /\ Len(last.title) < 10) =>
        /\ ~last.ret
        /\ last.topic = NoneVal
        /\ last.contacted = 0
        /\ ~last.store_read

\* a 7-character text that is itself a key of the store, asked by a user with a credential
C7_Witness ==
    /\ last.op = "is_similar_to_existing"
    /\ last.title = Ansible
    /\ openai_api_key[last.user]
    /\ HasKey(emb_file, Ansible)
    /\ ~last.ret

\* C8: for a title whose normalised form has fewer than 5 characters, exists(user, title)
\* returns false whatever the cache holds, and the call neither reads nor creates nor
\* refreshes a cache entry.
C8_ShortTitleFloor ==
    [][(last'.op = "title_exists_in_db" /\ Len(normalize_title(last'.title)) < 5) =>
          (/\ ~last'.ret
           /\ ~last'.cache_read
           /\ ~last'.rebuilt
           /\ title_cache' = title_cache)]_vars

\* the identical short title is cached and exists() still answers false
C8_Witness ==
    /\ last.op = "title_exists_in_db"
    /\ last.title = ShortAb
    /\ title_cache[last.user].present
    /\ title_cache[last.user].original = <<ShortAb>>
    /\ ~last.ret

----------------------------------------------------------------------------
(* Properties of post generation and of the title cache (checked under GenSpec) *)

\* the lists of the user's cache entry have equal length and correspond index by index
ParallelLists(u) ==
    /\ Len(title_cache[u].original) = Len(title_cache[u].normalized)
    /\ \A i \in DOMAIN title_cache[u].original :
          title_cache[u].normalized[i] = normalize_title(title_cache[u].original[i])

\* C11: in every reachable state, also between the steps of an append and during a
\* rebuild, the original and normalized lists of every cache entry have equal length and
\* normalized[i] = normalize(original[i]) at every index. The code appends to the two
\* lists in two statements, and another request of the process sees the state between.
C11_ParallelLists ==
    \A u \in Users : title_cache[u].present => ParallelLists(u)

\* C12: when a generation request is accepted with title T, the user's cache entry is
\* the entry from before the append extended by exactly T and normalize(T), and the next
\* exists(user, T) returns true.
C12_AppendOnAcceptance ==
    [][(gen.pc # "Accepted" /\ gen'.pc = "Accepted") =>
          /\ title_cache'[gen.user].present
          /\ title_cache'[gen.user].original = Append(gen.entry_before.original, gen.title)
          /\ title_cache'[gen.user].normalized =
                Append(gen.entry_before.normalized, normalize_title(gen.title))
          /\ (title_exists_in_db(gen.user, gen.title).ret)']_vars

\* C13: whenever a generation request ends in Accepted for title T, the embedding file
\* has an entry with key T.
C13_EmbeddingRegistered ==
    gen.pc = "Accepted" => HasKey(emb_file, gen.title)

\* the semantic check would report t: a stored topic with the same normalised form, or a
\* stored embedding with a similarity above 0.92
NearDuplicateOfStored(t) ==
    \/ ExactInEmbeddings(t)
    \/ \E i \in DOMAIN emb_file :
          CosineAbove92(EmbeddingOf(normalize_text(t)), emb_file[i].embedding)

\* C14: the duplicate guard gates generation, so no post is persisted under a title that
\* is a near-duplicate (similarity > 0.92, or the same normalised text) of a stored topic.
C14_CheckingGatesGenerating ==
    [][(gen.pc = "Saving" /\ gen'.inserted) => ~NearDuplicateOfStored(gen.title)]_vars

\* position of the first line from i on that is a markdown H1 (one '#', not '##'), or 0
RECURSIVE FirstH1(_, _)
FirstH1(content, i) ==
    IF i > Len(content) THEN 0
    ELSE IF HashRun(content[i], 1) = 1 THEN i
    ELSE FirstH1(content, i + 1)

\* the title of the content as the claim has it: the H1 if present, else the first line
MarkdownTitle(content) ==
    LET h == FirstH1(content, 1)
    IN  IF h > 0 THEN Strip(Tail(content[h])) ELSE Strip(content[1])

\* C15: the title is the markdown H1 of the generated content if there is one, else its
\* first line, and a title whose normalised form has fewer than 10 characters ends the
\* request in Failed with the validation error and without an inserted post.
C15_TitleValidation ==
    gen.post_reply = "ok" =>
        /\ gen.original_title = MarkdownTitle(gen.content)
        /\ Len(normalize_title(MarkdownTitle(gen.content))) < 10 =>
              (gen.pc = "Failed" /\ gen.message = TooShortMessage /\ ~gen.inserted)

\* the class of an error message
ErrorClass(message) ==
    CASE message = "No OpenAI API key set for this user." -> "credential"
      [] message \in {"OpenAI topic suggestion failed", "OpenAI post generation failed"}
            -> "provider"
      [] message \in {"Generated title is too short or invalid. Please try again.",
                      "A post with this title already exists. Please try a different topic."}
            -> "validation"
      [] message = "Failed to save generated post" -> "storage"
      [] OTHER -> "unknown"

\* why the request in flight failed, from the credential and the replies it got
FailureCause ==
    IF ~openai_api_key[gen.user] THEN "credential"
    ELSE IF gen.topic_reply = "error" \/ gen.post_reply = "error" THEN "provider"
    ELSE IF gen.db_reply = "error" THEN "storage"
    ELSE "validation"

\* C17: a failed generation request has status 'error' and a message whose class is its
\* cause (missing credential, provider failure, validation failure; a failed INSERT has
\* a message of its own), and no post was inserted for it.
C17_FailureCauses ==
    gen.pc = "Failed" =>
        /\ gen.status = "error"
        /\ ErrorClass(gen.message) = FailureCause
        /\ ~gen.inserted
        /\ gen.db_reply # "ok"

\* a request of a user with a credential failed on a title that already exists
C17_Witness ==
    /\ gen.pc = "Failed"
    /\ openai_api_key[gen.user]
    /\ gen.message = ExistsMessage

\* C18: get_titles(user, force_refresh) rebuilds the user's entry from the post store (the
\* user's titles in store order and their normalisations) when the user has no entry or
\* force_refresh is set, and leaves every other user's entry as it was; otherwise it
\* leaves the whole cache as it was and does not read the post store.
C18_GetTitles ==
    [][(last.op = "none" /\ last'.op = "get_all_user_titles") =>
          IF ~title_cache[last'.user].present \/ last'.force_refresh
          THEN /\ last'.rebuilt
               /\ title_cache'[last'.user] =
                     [present |-> TRUE,
                      original |-> TitlesOfUser(last'.user),
                      normalized |-> [i \in DOMAIN TitlesOfUser(last'.user) |->
                                         normalize_title(TitlesOfUser(last'.user)[i])]]
               /\ \A v \in Users \ {last'.user} : title_cache'[v] = title_cache[v]
          ELSE /\ ~last'.rebuilt
               /\ title_cache' = title_cache]_vars

\* the entry was returned as it was although the post store has a title it lacks
C18_Witness ==
    /\ last.op = "get_all_user_titles"
    /\ ~last.force_refresh
    /\ ~last.rebuilt
    /\ title_cache[last.user].original # TitlesOfUser(last.user)

\* C16: every generation request that has started reaches a terminal state (accepted, failed
\* or cancelled), whatever the language model answers: the duplicate-driven retries end.
C16_BoundedGeneration == (cli.pc = "Generating") ~> (cli.pc \in {"Accepted", "Failed", "Cancelled"})


----------------------------------------------------------------------------
(* Properties of the embedding file (checked under StoreSpec) *)

\* the same call on a store that does not exist
OnEmptyStore(call) ==
    CASE call.op = "is_similar_to_existing" ->
            is_similar_to_existing_from(FileMissing, call.text, call.user, call.reply)
      [] call.op = "get_similarity_stats" ->
            get_similarity_stats_from(FileMissing, call.text, call.user, call.reply)
      [] call.op = "add_embedding" ->
            add_embedding_from(FileMissing, call.text, call.user, call.reply)
      [] call.op = "cleanup_embeddings" -> cleanup_embeddings_from(FileMissing, call.user)
      [] OTHER -> Returns(TRUE, NoneVal, EmptyDict)

\* C19: on a file that is missing, unreadable, not JSON, or JSON that is not a mapping,
\* load returns the empty mapping without raising, and every caller does what it does on
\* an empty store.
C19_StoreResilience ==
    (io.call.op # "none" /\ io.call.file.kind # "object") =>
        /\ load_embeddings_from(io.call.file) = EmptyDict
        /\ ~io.call.outcome.raised
        /\ io.call.outcome = OnEmptyStore(io.call)

\* C20: a load that runs while a save is in progress, or after a save that failed, returns
\* the complete mapping persisted before the save or the complete new mapping.
C20_AtomicSave ==
    (io.call.op = "load_embeddings" /\ io.call.save.pc \in {"opening", "writing", "failed"}) =>
        io.call.outcome.loaded.items \in {io.call.save.replaced, io.call.save.new}

----------------------------------------------------------------------------
(* Further properties of the duplicate guard (checked under Spec) *)

\* C23: after a write to the post store that the title cache did not make (a WordPress
\* sync, a deletion), the next exists(user, title) answers from a refreshed entry: it is
\* true iff some post of the user now in the post store has the same normalised title of
\* at least 5 characters.
C23_CacheRecovery ==
    (last.op = "title_exists_in_db" /\ Len(normalize_title(last.title)) >= 5) =>
        (last.ret <=> ExactInPostStore(last.user, last.title))

\* the similarity of the query embedding and the i-th stored embedding
StoredScore(i) == cosine_similarity(last.emb, emb_file[i].embedding)

\* C25: when is_near_duplicate has a query embedding, the store is not empty and no stored
\* topic matches exactly, the topic it returns is a stored topic whose score is the
\* maximum over all stored embeddings, also when every score is zero or negative.
C25_BestMatch ==
    (/\ last.op = "is_similar_to_existing"
     /\ last.emb # NoEmbedding
     /\ emb_file # <<>>
     /\ ~ExactInEmbeddings(last.title))
    => \E i \in DOMAIN emb_file :
          /\ last.topic = emb_file[i].topic
          /\ \A j \in DOMAIN emb_file : ~ScoreGt(StoredScore(j), StoredScore(i))

\* the file differs from the old one at most in the entry of the key
OnlyKeySet(old, new, key) ==
    /\ Len(new) \in {Len(old), Len(old) + 1}
    /\ \A i \in DOMAIN old :
          /\ new[i].topic = old[i].topic
          /\ old[i].topic # key => new[i] = old[i]
    /\ Len(new) = Len(old) + 1 => (new[Len(new)].topic = key /\ ~HasKey(old, key))

----------------------------------------------------------------------------
(* Further properties of the embedding file (checked under StoreSpec) *)

\* the entries whose topic is the title of some post, of whatever user
EntriesOfPosts(embeddings) ==
    SelectSeq(embeddings, LAMBDA e : \E i \in DOMAIN user_posts : user_posts[i].title = e.topic)

\* C21: a garbage collection pass, run for any user, removes exactly the entries whose key
\* is not the title of an existing post; the entries of existing posts, whoever owns the
\* post, stay with their vectors.
C21_GcOnlyOrphans ==
    (io.call.op = "cleanup_embeddings" /\ io.call.file.kind = "object") =>
        (IF io.call.outcome.saves THEN io.call.outcome.new ELSE io.call.file.value)
            = EntriesOfPosts(io.call.file.value)

\* the entries whose vector has n components
OfDimension(embeddings, n) == SelectSeq(embeddings, LAMBDA e : Len(e.embedding) = n)

\* the file of the call without the entries whose vector has another length than the query's
ComparableFile(call) ==
    [kind |-> "object",
     value |-> OfDimension(call.file.value, Len(EmbeddingOf(normalize_text(call.text))))]

\* C26: a stored embedding of another length than the query's is skipped:
\* is_near_duplicate returns what the remaining stored embeddings determine and raises
\* nothing.
C26_DimensionMismatchSkipped ==
    (io.call.op = "is_similar_to_existing" /\ io.call.file.kind = "object") =>
        /\ ~io.call.outcome.raised
        /\ LET rest == is_similar_to_existing_from(ComparableFile(io.call), io.call.text,
                                                   io.call.user, io.call.reply)
           IN  io.call.outcome.ret = rest.ret /\ io.call.outcome.topic = rest.topic

\* C27: the save of an upsert that returns success leaves every topic that was in the file
\* when the save began in the file: no registration made by another request between the
\* load and the save of the upsert is lost; and the file then maps the key to the new
\* vector and every other key to its previous vector.
C27_NoLostRegistration ==
    (io.save.pc = "done" /\ io.save.key # NoneVal) =>
        /\ io.file.kind = "object"
        /\ HasKey(io.file.value, io.save.key)
        /\ \A i \in DOMAIN io.save.replaced :
              \/ io.save.replaced[i].topic = io.save.key
              \/ \E j \in DOMAIN io.file.value : io.file.value[j] = io.save.replaced[i]

----------------------------------------------------------------------------
(* The check-then-register race (checked under RaceSpec) *)

\* C22: the duplicate check and the registration that follows it are not atomic: the
\* INSERT of a request that passed the check stores the row without looking at the post
\* store again, so two requests of one user that both passed the check both store their
\* post, also when the two titles normalise to the same value.
C22_CheckThenRegisterRace ==
    [][(gen.pc = "Saving" /\ parked' = parked /\ gen'.db_reply = "ok") =>
          /\ gen'.inserted
          /\ user_posts' = Append(user_posts, [user_id |-> gen.user, title |-> gen.title,
                                               wp_post_id |-> 0])]_vars

\* two requests of one user are both accepted and their two rows have the same normalised
\* title, one the exact check finds (5 characters or more, stable under normalisation)
C22_Witness ==
    /\ gen.pc = "Accepted" /\ parked.pc = "Accepted"
    /\ gen.inserted /\ parked.inserted
    /\ gen.user = parked.user
    /\ Len(user_posts) = 2
    /\ user_posts[1].user_id = gen.user /\ user_posts[2].user_id = gen.user
    /\ {user_posts[1].title, user_posts[2].title} = {gen.title, parked.title}
    /\ normalize_title(user_posts[1].title) = normalize_title(user_posts[2].title)
    /\ Len(normalize_title(gen.title)) >= 5
    /\ normalize_title(normalize_title(gen.title)) = normalize_title(gen.title)

----------------------------------------------------------------------------
(* The rate limiter (checked under RateSpec) *)

\* C29: for each decorated endpoint and each client address, every window of `per` ticks
\* holds at most `limit` requests that reached the handler; a request is answered 429
\* exactly when at least `limit` requests of its address reached the handler of its
\* endpoint in the `per` ticks before it; and a request answered 429 is not recorded and
\* does not run the handler.
C29_SlidingWindow ==
    /\ \A e \in Endpoints, ip \in Ips, t \in 0..MaxTime :
          Cardinality({i \in DOMAIN rl.admitted[e][ip] :
                          /\ t <= rl.admitted[e][ip][i]
                          /\ rl.admitted[e][ip][i] < t + Decorated[e].per})
             <= Decorated[e].limit
    /\ \A r \in 1..2 :
          rl.req[r].pc = "done" =>
             /\ rl.req[r].status = 429 <=> rl.req[r].seen >= Decorated[rl.req[r].endpoint].limit
             /\ rl.req[r].status = 429 => ~rl.req[r].recorded /\ ~rl.req[r].ran
             /\ rl.req[r].status = 200 => rl.req[r].recorded /\ rl.req[r].ran

----------------------------------------------------------------------------
(* The WordPress sync (checked under SyncSpec) *)

\* the last post of the answer with the id
LatestTitle(posts, id) ==
    posts[CHOOSE i \in DOMAIN posts :
             posts[i].id = id /\ \A j \in DOMAIN posts : posts[j].id = id => j <= i].title

\* the rows that do not belong to the user
RECURSIVE RowsOfOthers(_, _)
RowsOfOthers(rows, user_id) ==
    IF rows = <<>> THEN <<>>
    ELSE IF rows[1].user_id # user_id
         THEN <<rows[1]>> \o RowsOfOthers(Tail(rows), user_id)
         ELSE RowsOfOthers(Tail(rows), user_id)

\* C30: sync_wordpress_posts is an idempotent upsert keyed by (user_id, wp_post_id):
\* after any number of successful runs user_posts holds at most one row per
\* (user_id, wp_post_id); after a run that returned True its rows carry the titles of the
\* posts fetched last, and the same answer synced again gives the same table; local rows
\* without wp_post_id and the rows of other users are unchanged by a run; a run whose
\* fetch failed wrote nothing.
C30_IdempotentUpsert ==
    /\ \A i, j \in DOMAIN user_posts :
          (/\ user_posts[i].wp_post_id # 0
           /\ user_posts[i].wp_post_id = user_posts[j].wp_post_id
           /\ user_posts[i].user_id = user_posts[j].user_id) => i = j
    /\ \A k \in DOMAIN user_posts :
          user_posts[k].wp_post_id = 0 => k \in DOMAIN SyncTable /\ user_posts[k] = SyncTable[k]
    /\ \A r \in 1..2 :
          wp.lock = r => RowsOfOthers(wp.run[r].rows, wp.run[r].user) =
                            RowsOfOthers(user_posts, wp.run[r].user)
    /\ \A r \in 1..2 :
          wp.run[r].pc = "returned" =>
             /\ ~wp.run[r].ret => ~wp.run[r].wrote
             /\ (wp.run[r].ret /\ user_posts = wp.run[r].rows) =>
                   /\ SyncRows(user_posts, wp.run[r].user, wp.run[r].posts, 1) = user_posts
                   /\ \A p \in DOMAIN wp.run[r].posts :
                         \E k \in DOMAIN user_posts :
                            /\ user_posts[k].user_id = wp.run[r].user
                            /\ user_posts[k].wp_post_id = wp.run[r].posts[p].id
                            /\ user_posts[k].title =
                                  LatestTitle(wp.run[r].posts, wp.run[r].posts[p].id)

----------------------------------------------------------------------------
(* Isolation of the users (checked under IsoSpec) *)

\* C24: the duplicate decisions for user 1 depend on the corpus of user 1 only: the run
\* in which user 2 registers topics and collects garbage and the run without user 2
\* give user 1 the same answer to every is_similar_to_existing call, and every topic
\* user 1 registered is still in the embedding file after any operation of user 2.
C24_PerUserIsolation ==
    /\ iso.decision.made => iso.decision.with = iso.decision.without
    /\ \A text \in iso.registered : HasKey(load_embeddings_from(iso.with).items, text)

============================================================================
